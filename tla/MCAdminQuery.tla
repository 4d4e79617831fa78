---------------------------- MODULE MCAdminQuery ----------------------------
(* Two addresses, so that a goroutine can run after the loop has moved on  *)
(* and two merges can contend for the mutex; two items, so that replies    *)
(* can overlap, differ or be empty; two versions and an unparsable one.    *)
EXTENDS AdminQuery

MCFuncs == {"lookupdTopics", "lookupdTopicChannels", "lookupdTopicProducers",
            "nsqdTopics", "lookupdProducers", "nsqdTopicProducers",
            "nsqdStats"}

\* getNSQDTopicProducers alone
MCTopicProducers == {"nsqdTopicProducers"}
=============================================================================
