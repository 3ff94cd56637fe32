------------------------------- MODULE MCCrawl ------------------------------
EXTENDS Crawl

CONSTANTS plain, logged, u1, u2, a1, a2, s1

\* A crawler without a session, or one with a session beside the keepalive of it.
MCSetups == {[crawlers |-> {plain}, keepalive |-> FALSE], [crawlers |-> {logged}, keepalive |-> TRUE]}
MCUses == [c \in Crawler |-> IF c = logged THEN s1 ELSE NoSession]
MCUrls == [c \in Crawler |-> <<u1, u2>>]
MCLoads == [c \in Crawler |-> IF c = logged THEN 1 ELSE MaxGen]

\* The second url shows a post that quotes the one of the first.
MCShown == [c \in Crawler |-> IF c = logged THEN [u \in Url |-> {}] ELSE [u \in Url |-> IF u = u1 THEN {a1} ELSE {a2}]]
MCQuotes == [a \in Article |-> IF a = a2 THEN {a1} ELSE {}]

\* An error that is tried again, and one that cools the url and counts against the session.
MCRetried == [c \in Crawler |-> {"timeout"}]
MCDurations == [c \in Crawler |-> [k \in Class |-> IF k = "auth" THEN {1} ELSE {0}]]
=============================================================================
