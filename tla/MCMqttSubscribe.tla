-------------------------- MODULE MCMqttSubscribe --------------------------
(* Filters, topics and symmetry for the runs of MqttSubscribe. *)
EXTENDS MqttSubscribe

MCFilters == {<<"a", "b">>, <<"a", "+">>}
MCWild    == {<<"a", "+">>}
MCTopics  == {<<"a", "b">>}
MCBefore  == <<[filter |-> <<"a", "b">>, fn |-> "f"]>>

\* A handler that an unsubscribe takes out, so that a message finds none.
MCBeforeWild == <<[filter |-> <<"a", "+">>, fn |-> "f"]>>

\* Filters and topics of up to three levels, empty ones too, and how a level and
\* a topic is spelt.  "a" is the first character of "ab".
Levels   == {"", "a", "ab"} \cup Wild
ShortTopics(L) == SeqOf(L, 3) \ {<<>>}
Spell    == [l \in Levels |-> CASE l = "" -> <<>> [] l = "ab" -> <<"a", "b">> [] OTHER -> <<l>>]
Spelt(f) == FlattenSeq([i \in DOMAIN f |-> <<"/">> \o Spell[f[i]]])

\* The loop of iotx_mc_is_topic_matched over characters and its form by levels
\* give the same result for every filter and every topic, also one that is itself
\* a filter, as in MQTTUnsubscribe; and that result is what the filter covers.
ASSUME MatcherCorrect ==
  \A f, t \in ShortTopics(Levels) :
    /\ is_topic_matched(f, t) = match_chars(Spelt(f), Spelt(t))
    /\ t \in ShortTopics(Levels \ Wild) => is_topic_matched(f, t) = Fits(f, t)

CallerSymmetry == Permutations(Callers)

=============================================================================
