----------------------------- MODULE TopicMatch -----------------------------
(***************************************************************************)
(* Topics and topic filters (src/mqtt/impl/iotx_mqtt_client.c): the check  *)
(* of a filter, the loop that matches a filter with a topic, and what MQTT *)
(* says a filter covers.                                                   *)
(*                                                                         *)
(* A topic is the sequence of the levels behind its leading '/'; a level   *)
(* may be empty.  A level that is neither empty nor a wildcard is a name of*)
(* more than one character.                                                *)
(***************************************************************************)
EXTENDS Integers, Sequences

Wild    == {"+", "#"}
Nothing == ""            \* an empty level

\* What infra_strtok returns one after the other: it skips empty levels, and
\* misses a last one of a single character, here a wildcard.
Looked(f) ==
  {i \in DOMAIN f :
     /\ f[i] # Nothing
     /\ ~(i = Len(f) /\ i > 1 /\ f[i] \in Wild /\ f[i - 1] # Nothing)}

\* Not only slashes; nothing follows a '#', except after the first level, for
\* which the mask is not set.  (That a wildcard fills its level is in the
\* representation.)
check_topic(f) ==
  /\ \E i \in DOMAIN f : f[i] # Nothing
  /\ \A i, j \in Looked(f) :
       f[i] = "#" /\ i < j => \A k \in 1..i - 1 : f[k] = Nothing

\* The loop over the characters of filter and topic: pos is <<curf, curn>>.
match_chars(f, t) ==
  LET skip(j) == CHOOSE k \in j..Len(t) :
                   /\ \A l \in j + 1..k : t[l] # "/"
                   /\ k = Len(t) \/ t[k + 1] = "/"
      loop[pos \in (1..Len(f) + 1) \X (1..Len(t) + 1)] ==
        LET i == pos[1]
            j == pos[2]
        IN  IF i > Len(f) \/ j > Len(t) THEN i > Len(f) /\ j > Len(t)
            ELSE /\ t[j] = "/" => f[i] = "/"
                 /\ f[i] \in Wild \cup {t[j]}
                 /\ loop[<<i + 1, CASE f[i] = "+" -> skip(j) + 1
                                    [] f[i] = "#" -> Len(t) + 1
                                    [] OTHER -> j + 1>>]
  IN  loop[<<1, 1>>]

\* The same loop, a level at a time: it stops at the first level that differs,
\* '+' passes one level, '#' all that are left, and neither starts at a '/' or
\* at the end of the topic.
is_topic_matched(f, t) ==
  LET pass[i \in 1..Len(f) + 1] ==
        IF i > Len(f) THEN i > Len(t)
        ELSE /\ i <= Len(t)
             /\ \/ f[i] = "#" /\ i = Len(f) /\ t[i] # Nothing
                \/ f[i] = "+" /\ t[i] # Nothing /\ pass[i + 1]
                \/ f[i] = t[i] /\ f[i] \notin Wild /\ pass[i + 1]
  IN  pass[1]

\* What a filter covers by the rules of MQTT: '+' one level, '#' the level it
\* stands for, all below it and the one above it; a level may be empty.
Covers(f, t) ==
  \/ /\ Len(f) = Len(t)
     /\ \A i \in DOMAIN f : f[i] \in {"+", t[i]}
  \/ /\ f # <<>> /\ f[Len(f)] = "#" /\ Len(f) <= Len(t) + 1
     /\ \A i \in 1..Len(f) - 1 : f[i] \in {"+", t[i]}

\* A wildcard that has no character of the topic to stand for.
WildcardOnNothing(f, t) ==
  \E i \in DOMAIN f : f[i] \in Wild /\ (i > Len(t) \/ t[i] = Nothing)

\* What this client means by a filter: MQTT's rules, but a wildcard stands for
\* one character at least.
Fits(f, t) == Covers(f, t) /\ ~WildcardOnNothing(f, t)

=============================================================================
