------------------------------- MODULE Topics -------------------------------
(***************************************************************************)
(* Topics and topic patterns of the PubSub server, and the pure functions  *)
(* the broker applies to them: the pattern match of the subscription       *)
(* manager and the two access-control checks.                              *)
(*                                                                         *)
(* A topic string is the nonempty sequence of its "/"-separated levels:    *)
(* splitting a string at "/" loses nothing, and every string operation the *)
(* code applies (==, startswith, rstrip) is a condition on the levels.     *)
(* What the code asks of the characters inside one level is given by the   *)
(* constants StartsWith and Unhash.                                        *)
(***************************************************************************)
EXTENDS SequencesExt

CONSTANTS
    Level,       \* the strings between two slashes
    Device,      \* device ids: any strings, so sequences of levels like topics
    StartsWith,  \* <<l, m>>: l.startswith(m)
    Unhash       \* l |-> l.rstrip("#")

Reserved == {"devices", "#", ""}

ASSUME LevelAssumption ==
    /\ Reserved \subseteq Level
    /\ Device \subseteq Seq(Level) \ {<<>>}
    /\ StartsWith \subseteq Level \X Level
    /\ \A l \in Level : <<l, l>> \in StartsWith
    /\ \A k, l, m \in Level :
          <<k, l>> \in StartsWith /\ <<l, m>> \in StartsWith => <<k, m>> \in StartsWith
    /\ Unhash \in [Level -> Level]
    /\ Unhash["#"] = ""
    /\ \A l \in Level : <<l, Unhash[l]>> \in StartsWith

\* The empty device id.  The code takes any string for an id (ConnectPayload),
\* and some of its tests are on the truth of the id.
EmptyId == <<"">>

-----------------------------------------------------------------------------
(* SubscriptionManager._matches *)

\* A plausible slip: the match counts a topic that equals the pattern without its "#" only.
MatchesNoSlash(pattern, topic) ==
    \/ pattern = topic
    \/ /\ Len(pattern) > 1
       /\ Last(pattern) = "#"
       /\ \/ topic = Front(pattern)
          \/ /\ Len(topic) >= Len(pattern) - 1
             /\ Front(Front(pattern)) = SubSeq(topic, 1, Len(pattern) - 2)
             /\ <<topic[Len(pattern) - 1], Last(Front(pattern))>> \in StartsWith
    \/ pattern = <<"#">>

Matches(pattern, topic) ==
    \/ pattern = topic
    \/ /\ Len(pattern) > 1
       /\ Last(pattern) = "#"
       /\ \/ topic = Front(pattern)
          \/ IsStrictPrefix(Front(pattern), topic)
    \/ pattern = <<"#">>

-----------------------------------------------------------------------------
(* acl.py *)

DevicePrefix(d) == <<"devices">> \o d

\* topic.startswith("devices/{id}/"): the slash asks for one more level.
CheckPublishAcl(d, topic) == IsStrictPrefix(DevicePrefix(d), topic)

\* s.rstrip("/"), the empty string being the empty sequence: a level stays when
\* it or a later one is not empty.
RstripSlash(s) ==
    [i \in {j \in DOMAIN s : \E k \in j..Len(s) : s[k] # ""} |-> s[i]]

\* t.startswith(s), for an s that is not empty: the levels of s are those of t,
\* and the last one begins t's.
Begins(t, s) ==
    \A i \in DOMAIN s :
        /\ i \in DOMAIN t
        /\ <<t[i], s[i]>> \in StartsWith
        /\ i + 1 \in DOMAIN s => t[i] = s[i]

\* pattern.rstrip("#").rstrip("/")
StripWildcard(pattern) == RstripSlash([pattern EXCEPT ![Len(pattern)] = Unhash[@]])

\* "devices/{id}/".rstrip("/")
AllowedPrefix(d) == RstripSlash(DevicePrefix(d))

\* A plausible slip: the prefix is compared up to "devices" only.
CheckSubscribeAclAnyDevice(d, pattern) == Begins(StripWildcard(pattern), <<"devices">>)

\* There is no slash after the id in what the pattern has to start with.
CheckSubscribeAcl(d, pattern) == Begins(StripWildcard(pattern), AllowedPrefix(d))
=============================================================================
