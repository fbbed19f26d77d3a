---------------------------- MODULE Protocol_proof ----------------------------
(***************************************************************************)
(* Lemmas about the words of the protocol (Protocol), for any number of    *)
(* attempts: the operators stay within their types, what is kept of each   *)
(* word, and what the shim says again on a new connection. The proofs about *)
(* the live link and about the automatic reconnects rest on them.          *)
(***************************************************************************)
EXTENDS Protocol, TLAPS

-----------------------------------------------------------------------------
(* The operators of Protocol stay within their types.                      *)

\* The constructors give words of the shim.
LEMMA WordsType ==
    /\ \A t \in {"Hello", "Waiting", "Authenticated", "Unreachable", "Closing"} :
           Word(t) \in ShimMessage
    /\ \A n \in Attempt : Connecting(n) \in ShimMessage
    /\ \A c \in Code : Exited(c) \in ShimMessage
  BY DEF Word, Connecting, Exited, ShimMessage

\* A record that hears a word is a record (native-term-app, apply).
LEMMA ApplyType ==
    ASSUME NEW s \in Session, NEW m \in ShimMessage
    PROVE  Apply(s, m) \in Session
<1>1. Attempt \subseteq 0..MaxAttempt
  BY MaxAttemptAssumption DEF Attempt
<1>2. CASE m.type = "Connecting"
  <2>1. m.attempt \in 0..MaxAttempt
    BY <1>1, <1>2 DEF ShimMessage
  <2> QED BY <1>2, <2>1 DEF Apply, Session, State
<1>3. CASE m.type = "Exited"
  <2>1. \A c, a, u : Outcome(c, a, u) \in State
    BY DEF Outcome, State
  <2> QED BY <1>3, <2>1 DEF Apply, Session
<1>4. CASE m.type \notin {"Connecting", "Exited"}
  BY <1>4 DEF Apply, Session, State
<1> QED BY <1>2, <1>3, <1>4

LEMMA NoReplayType == NoReplay \in Replay
  BY MaxAttemptAssumption DEF NoReplay, Replay

\* What is remembered of a word is a Replay (link.rs, remember).
LEMMA RememberType ==
    ASSUME NEW r \in Replay, NEW m \in ShimMessage
    PROVE  Remember(r, m) \in Replay
<1>1. CASE m.type = "Connecting"
  <2>1. m.attempt \in 0..MaxAttempt
    BY <1>1, MaxAttemptAssumption DEF ShimMessage, Attempt
  <2> QED BY <1>1, <2>1 DEF Remember, NoReplay, Replay
<1>2. CASE m.type = "Exited"
  <2>1. m.code \in Code
    BY <1>2 DEF ShimMessage
  <2> QED BY <1>2, <2>1 DEF Remember, Replay
<1>3. CASE m.type = "Waiting"
  <2>1. Remember(r, m) = [NoReplay EXCEPT !.outcome = "Waiting"]
    BY <1>3 DEF Remember
  <2> QED BY <2>1, NoReplayType DEF Replay
<1>4. CASE m.type \notin {"Connecting", "Exited", "Waiting"}
  BY <1>4 DEF Remember, Replay
<1> QED BY <1>1, <1>2, <1>3, <1>4

\* The replayed words are words of the shim.
LEMMA ReplayWordsType ==
    ASSUME NEW r \in Replay
    PROVE  ReplayWords(r) \in Seq(ShimMessage)
<1>1. ASSUME NEW c \in BOOLEAN, NEW m \in ShimMessage
      PROVE  If(c, m) \in Seq(ShimMessage)
  BY DEF If
<1>2. If(r.connecting # 0, Connecting(r.connecting)) \in Seq(ShimMessage)
  <2>1. CASE r.connecting = 0
    BY <2>1 DEF If
  <2>2. CASE r.connecting # 0
    <3>1. r.connecting \in Attempt
      BY <2>2, MaxAttemptAssumption DEF Replay, Attempt
    <3> QED BY <3>1, <2>2, WordsType DEF If
  <2> QED BY <2>1, <2>2
<1>3. If(r.outcome \in Code, Exited(r.outcome)) \in Seq(ShimMessage)
  BY WordsType DEF If
<1>4. /\ If(r.authenticated, Word("Authenticated")) \in Seq(ShimMessage)
      /\ If(r.unreachable, Word("Unreachable")) \in Seq(ShimMessage)
      /\ If(r.outcome = "Waiting", Word("Waiting")) \in Seq(ShimMessage)
  BY <1>1, WordsType DEF Replay
<1> QED BY <1>2, <1>3, <1>4 DEF ReplayWords

-----------------------------------------------------------------------------
(* What is kept of a word, and said again.                                 *)

\* What is kept of each word.
LEMMA RememberWords ==
    ASSUME NEW r
    PROVE  /\ Remember(r, Word("Waiting")) = [NoReplay EXCEPT !.outcome = "Waiting"]
           /\ Remember(r, Word("Authenticated")) = [r EXCEPT !.authenticated = TRUE]
           /\ Remember(r, Word("Unreachable")) = [r EXCEPT !.unreachable = TRUE]
           /\ Remember(r, Word("Closing")) = r
  BY DEF Remember, Word

LEMMA RememberConnecting ==
    ASSUME NEW r, NEW n
    PROVE  Remember(r, Connecting(n)) = [NoReplay EXCEPT !.connecting = n]
  BY DEF Remember, Connecting

LEMMA RememberExited ==
    ASSUME NEW r, NEW c
    PROVE  Remember(r, Exited(c)) = [r EXCEPT !.outcome = c]
  BY DEF Remember, Exited

\* v is w with the word e behind it, or without.
More(v, w, z, e) ==
    /\ v \in Seq(ShimMessage) /\ v # << >>
    /\ \A i \in DOMAIN w : i \in DOMAIN v /\ v[i] = w[i]
    /\ \A i \in DOMAIN v : i \in DOMAIN w \/ (z /\ i = Len(v) /\ v[i] = e /\ i > 1)
    /\ z => \E i \in DOMAIN v : i = Len(v) /\ v[i] = e /\ i > 1

\* One word more, or none.
LEMMA OneMore ==
    ASSUME NEW w \in Seq(ShimMessage), w # << >>, NEW z \in BOOLEAN, NEW e,
           z => e \in ShimMessage, NEW v, v = w \o If(z, e)
    PROVE  More(v, w, z, e)
<1>1. CASE z
  <2>3. v = w \o <<e>> /\ e \in ShimMessage
    BY <1>1 DEF If
  <2>1. /\ v \in Seq(ShimMessage) /\ Len(w) \in Nat /\ Len(w) # 0 /\ Len(v) = Len(w) + 1
        /\ v[Len(w) + 1] = e /\ \A i \in DOMAIN w : i \in DOMAIN v /\ v[i] = w[i]
        /\ \A i \in DOMAIN v : i \in DOMAIN w \/ i = Len(w) + 1
        /\ Len(w) + 1 \in DOMAIN v
    BY <2>3
  <2>2. v # << >> /\ Len(v) > 1
    BY <2>1
  <2> QED BY <1>1, <2>1, <2>2 DEF More
<1>2. CASE ~z
  <2>1. v = w
    BY <1>2 DEF If
  <2> QED BY <1>2, <2>1 DEF More
<1> QED BY <1>1, <1>2

\* What the shim says again of an attempt: the attempt first, its end last.
LEMMA AgainIs ==
    ASSUME NEW r \in Replay, r.connecting # 0, r.outcome # "Waiting"
    PROVE  LET w == ReplayWords(r)
           IN /\ w \in Seq(ShimMessage)
              /\ 1 \in DOMAIN w /\ w[1] = Connecting(r.connecting)
              /\ \A i \in DOMAIN w :
                    \/ i = 1
                    \/ i > 1 /\ r.authenticated /\ w[i] = Word("Authenticated")
                    \/ i > 1 /\ r.unreachable /\ w[i] = Word("Unreachable")
                    \/ i > 1 /\ r.outcome \in Code /\ w[i] = Exited(r.outcome) /\ i = Len(w)
              /\ r.authenticated => \E i \in DOMAIN w : i > 1 /\ w[i] = Word("Authenticated")
              /\ r.unreachable => \E i \in DOMAIN w : i > 1 /\ w[i] = Word("Unreachable")
              /\ r.outcome \in Code =>
                    \E k \in DOMAIN w : k = Len(w) /\ k > 1 /\ w[k] = Exited(r.outcome)
<1> DEFINE a == Word("Authenticated")
           u == Word("Unreachable")
           e == Exited(r.outcome)
           x == Connecting(r.connecting)
           c5 == r.outcome \in Code
           w1 == <<x>>
           w2 == w1 \o If(r.authenticated, a)
           w3 == w2 \o If(r.unreachable, u)
           w4 == w3 \o If(c5, e)
<1>1. r.authenticated \in BOOLEAN /\ r.unreachable \in BOOLEAN
  BY DEF Replay
<1>s. /\ x \in ShimMessage /\ a \in ShimMessage /\ u \in ShimMessage
      /\ c5 => e \in ShimMessage
  <2>1. r.connecting \in Attempt
    BY MaxAttemptAssumption DEF Replay, Attempt
  <2> QED BY <2>1, WordsType
<1>c. c5 \in BOOLEAN /\ (c5 <=> r.outcome \in Code)
  OBVIOUS
<1>2. w1 \in Seq(ShimMessage) /\ w1 # << >> /\ 1 \in DOMAIN w1 /\ w1[1] = x /\ \A i \in DOMAIN w1 : i = 1
  BY <1>s
<1> HIDE DEF x, a, u, e, c5, w1
<1>3. /\ w2 \in Seq(ShimMessage) /\ w2 # << >>
      /\ \A i \in DOMAIN w1 : i \in DOMAIN w2 /\ w2[i] = w1[i]
      /\ \A i \in DOMAIN w2 : i \in DOMAIN w1 \/ (r.authenticated /\ i = Len(w2) /\ w2[i] = a /\ i > 1)
      /\ r.authenticated => \E i \in DOMAIN w2 : i = Len(w2) /\ w2[i] = a /\ i > 1
  <2>1. w2 = w1 \o If(r.authenticated, a)
    OBVIOUS
  <2> HIDE DEF w2
  <2>2. More(w2, w1, r.authenticated, a)
    BY <1>1, <1>2, <1>s, <2>1, OneMore
  <2> QED BY <2>2 DEF More
<1> HIDE DEF w2
<1>4. /\ w3 \in Seq(ShimMessage) /\ w3 # << >>
      /\ \A i \in DOMAIN w2 : i \in DOMAIN w3 /\ w3[i] = w2[i]
      /\ \A i \in DOMAIN w3 : i \in DOMAIN w2 \/ (r.unreachable /\ i = Len(w3) /\ w3[i] = u /\ i > 1)
      /\ r.unreachable => \E i \in DOMAIN w3 : i = Len(w3) /\ w3[i] = u /\ i > 1
  <2>1. w3 = w2 \o If(r.unreachable, u)
    OBVIOUS
  <2> HIDE DEF w3
  <2>2. More(w3, w2, r.unreachable, u)
    BY <1>1, <1>3, <1>s, <2>1, OneMore
  <2> QED BY <2>2 DEF More
<1> HIDE DEF w3
<1>5. /\ w4 \in Seq(ShimMessage) /\ w4 # << >>
      /\ \A i \in DOMAIN w3 : i \in DOMAIN w4 /\ w4[i] = w3[i]
      /\ \A i \in DOMAIN w4 : i \in DOMAIN w3 \/ (c5 /\ i = Len(w4) /\ w4[i] = e /\ i > 1)
      /\ c5 => \E i \in DOMAIN w4 : i = Len(w4) /\ w4[i] = e /\ i > 1
  <2>1. w4 = w3 \o If(c5, e)
    OBVIOUS
  <2> HIDE DEF w4
  <2>2. More(w4, w3, c5, e)
    BY <1>c, <1>4, <1>s, <2>1, OneMore
  <2> QED BY <2>2 DEF More
<1> HIDE DEF w4
<1>6. ReplayWords(r) = w4
  <2>1. If(r.outcome = "Waiting", Word("Waiting")) = << >>
    BY DEF If
  <2>2. If(r.connecting # 0, x) = w1
    BY DEF If, w1
  <2>3. w3 \o << >> = w3
    BY <1>4
  <2> QED BY <2>1, <2>2, <2>3 DEF ReplayWords, w2, w3, w4, x, a, u, e, c5
<1>7. ReplayWords(r) \in Seq(ShimMessage)
  BY ReplayWordsType
<1>8. \A i \in DOMAIN w4 :
          \/ i = 1
          \/ i > 1 /\ r.authenticated /\ w4[i] = a
          \/ i > 1 /\ r.unreachable /\ w4[i] = u
          \/ i > 1 /\ c5 /\ w4[i] = e /\ i = Len(w4)
  <2> TAKE i \in DOMAIN w4
  <2>1. CASE i \notin DOMAIN w3
    BY <1>5, <2>1
  <2>2. CASE i \in DOMAIN w3 /\ i \notin DOMAIN w2
    BY <1>4, <1>5, <2>2
  <2>3. CASE i \in DOMAIN w2 /\ i \in DOMAIN w3 /\ i \notin DOMAIN w1
    BY <1>3, <1>4, <1>5, <2>3
  <2>4. CASE i \in DOMAIN w1
    BY <1>2, <2>4
  <2> QED BY <2>1, <2>2, <2>3, <2>4
<1>9. 1 \in DOMAIN w4 /\ w4[1] = x
  BY <1>2, <1>3, <1>4, <1>5
<1>10. r.authenticated => \E i \in DOMAIN w4 : i > 1 /\ w4[i] = a
  BY <1>3, <1>4, <1>5
<1>11. r.unreachable => \E i \in DOMAIN w4 : i > 1 /\ w4[i] = u
  BY <1>4, <1>5
<1> QED BY <1>5, <1>6, <1>7, <1>8, <1>9, <1>10, <1>11, <1>c DEF x, a, u, e

\* What it says again when it waits.
LEMMA WaitsAgain ==
    ASSUME NEW r \in Replay, r.connecting = 0, r.outcome = "Waiting",
           ~r.authenticated, ~r.unreachable
    PROVE  LET w == ReplayWords(r)
           IN 1 \in DOMAIN w /\ \A i \in DOMAIN w : w[i] = Word("Waiting")
<1>1. "Waiting" \notin Code
  BY DEF Code
<1>2. ReplayWords(r) = << >> \o << >> \o << >> \o <<Word("Waiting")>> \o << >>
  BY <1>1 DEF ReplayWords, If
<1>3. << >> \o << >> \o << >> \o <<Word("Waiting")>> \o << >> = <<Word("Waiting")>>
  OBVIOUS
<1> QED BY <1>2, <1>3
===============================================================================
