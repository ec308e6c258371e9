---------------------------- MODULE RealtimeProofs ----------------------------
(* Theorems about Realtime, for any events, connections and replay limit.    *)
EXTENDS Realtime, FiniteSetTheorems, TLAPS

(* What has reached the handlers since the last cold start is known, and    *)
(* was counted once.                                                        *)
OnceAndKnown ==
  /\ handled \in [Events -> {0, 1}]
  /\ \A e \in Events : handled[e] = 1 => e \in seen

LEMMA OnceStep == OnceAndKnown /\ [Next]_vars => OnceAndKnown'
<1> SUFFICES ASSUME OnceAndKnown, [Next]_vars PROVE OnceAndKnown'
  OBVIOUS
<1>1. CASE UNCHANGED page
  BY <1>1 DEF OnceAndKnown, page
<1>2. ASSUME NEW c \in Connections, HandleMessage(c) PROVE OnceAndKnown'
  <2> DEFINE m == Head(wire[c])
  <2>1. CASE m = Truncated /\ handled' = [e \in Events |-> 0]
    BY <2>1 DEF OnceAndKnown
  <2>2. CASE UNCHANGED page
    BY <1>1, <2>2
  <2>3. CASE /\ m \in Events \ seen
             /\ seen' = seen \cup {m}
             /\ handled' = [handled EXCEPT ![m] = @ + 1]
    <3>1. handled[m] = 0
      BY <2>3 DEF OnceAndKnown
    <3>2. handled' = [handled EXCEPT ![m] = 1]
      BY <2>3, <3>1
    <3> QED
      BY <2>3, <3>2 DEF OnceAndKnown
  <2> QED
    BY <1>2, <2>1, <2>2, <2>3 DEF HandleMessage
<1>3. ASSUME NEW e \in Events, Publish(e) PROVE OnceAndKnown'
  BY <1>1, <1>3 DEF Publish, Insert, Commit, InsertFails, Dispatch
<1>4. ASSUME NEW c \in Connections, Serve(c) PROVE OnceAndKnown'
  BY <1>1, <1>4 DEF Serve, ReplayQuery, ReplayFails, ReplaySend, Unregister
<1>5. ASSUME NEW c \in Connections, Subscribe(c) \/ Disconnect(c) PROVE OnceAndKnown'
  BY <1>1, <1>5 DEF Subscribe, Disconnect
<1>6. CASE Crash \/ UNCHANGED vars
  BY <1>1, <1>6 DEF Crash, vars
<1> QED
  BY <1>2, <1>3, <1>4, <1>5, <1>6 DEF Next

(* Over any number of connections, live or replayed, an event reaches the   *)
(* handlers once between two cold starts.                                   *)
THEOREM HandledOnce == Spec => []AtMostOnce
<1>1. Init => OnceAndKnown
  BY DEF Init, OnceAndKnown
<1>2. OnceAndKnown => AtMostOnce
  BY DEF OnceAndKnown, AtMostOnce
<1> QED
  BY <1>1, <1>2, OnceStep, PTL DEF Spec

-----------------------------------------------------------------------------
(* No gap *)

LEMMA Consumed ==
  ASSUME NEW S, NEW w \in Seq(S), w # << >>
  PROVE  /\ Head(w) \in S /\ Head(w) \in ToSet(w)
         /\ Tail(w) \in Seq(S) /\ ToSet(Tail(w)) \subseteq ToSet(w)
         /\ ToSet(w) \subseteq ToSet(Tail(w)) \cup {Head(w)}
<1>1. /\ Len(w) \in Nat \ {0} /\ DOMAIN w = 1 .. Len(w)
      /\ Tail(w) \in Seq(S) /\ DOMAIN Tail(w) = 1 .. Len(w) - 1
      /\ \A i \in 1 .. Len(w) - 1 : Tail(w)[i] = w[i + 1]
      /\ Head(w) = w[1] /\ w[1] \in S
  OBVIOUS
<1>2. ASSUME NEW x \in ToSet(w) PROVE x = Head(w) \/ x \in ToSet(Tail(w))
  <2>1. PICK i \in 1 .. Len(w) : x = w[i]
    BY <1>1, <1>2 DEF ToSet
  <2>2. CASE i # 1
    <3>1. i - 1 \in 1 .. Len(w) - 1 /\ Tail(w)[i - 1] = x
      BY <1>1, <2>1, <2>2
    <3> QED
      BY <1>1, <3>1 DEF ToSet
  <2> QED
    BY <1>1, <2>1, <2>2
<1>3. ASSUME NEW x \in ToSet(Tail(w)) PROVE x \in ToSet(w)
  <2>1. PICK i \in 1 .. Len(w) - 1 : x = Tail(w)[i]
    BY <1>1, <1>3 DEF ToSet
  <2>2. i + 1 \in 1 .. Len(w) /\ w[i + 1] = x
    BY <1>1, <2>1
  <2> QED
    BY <1>1, <2>2 DEF ToSet
<1>4. Head(w) \in ToSet(w)
  BY <1>1 DEF ToSet
<1> QED
  BY <1>1, <1>2, <1>3, <1>4

LEMMA Concatenated ==
  ASSUME NEW S, NEW v \in Seq(S), NEW w \in Seq(S)
  PROVE  v \o w \in Seq(S) /\ ToSet(v \o w) = ToSet(v) \cup ToSet(w)
<1>1. /\ Len(v) \in Nat /\ Len(w) \in Nat /\ v \o w \in Seq(S)
      /\ DOMAIN v = 1 .. Len(v) /\ DOMAIN w = 1 .. Len(w)
      /\ DOMAIN (v \o w) = 1 .. Len(v) + Len(w)
      /\ \A i \in 1 .. Len(v) : (v \o w)[i] = v[i]
  OBVIOUS
<1>2. \A i \in Len(v) + 1 .. Len(v) + Len(w) : (v \o w)[i] = w[i - Len(v)]
  OBVIOUS
<1>3. ASSUME NEW x \in ToSet(v \o w) PROVE x \in ToSet(v) \cup ToSet(w)
  <2>1. PICK i \in 1 .. Len(v) + Len(w) : x = (v \o w)[i]
    BY <1>1, <1>3 DEF ToSet
  <2>2. CASE i \in 1 .. Len(v)
    BY <1>1, <2>1, <2>2 DEF ToSet
  <2>3. CASE i \in Len(v) + 1 .. Len(v) + Len(w)
    <3>1. i - Len(v) \in 1 .. Len(w) /\ x = w[i - Len(v)]
      BY <1>1, <1>2, <2>1, <2>3
    <3> QED
      BY <1>1, <3>1 DEF ToSet
  <2> QED
    BY <1>1, <2>1, <2>2, <2>3
<1>4. ASSUME NEW x \in ToSet(v) PROVE x \in ToSet(v \o w)
  <2>1. PICK i \in 1 .. Len(v) : x = v[i]
    BY <1>1, <1>4 DEF ToSet
  <2>2. i \in 1 .. Len(v) + Len(w) /\ x = (v \o w)[i]
    BY <1>1, <2>1
  <2> QED
    BY <1>1, <2>2 DEF ToSet
<1>5. ASSUME NEW x \in ToSet(w) PROVE x \in ToSet(v \o w)
  <2>1. PICK i \in 1 .. Len(w) : x = w[i]
    BY <1>1, <1>5 DEF ToSet
  <2>2. i + Len(v) \in Len(v) + 1 .. Len(v) + Len(w) /\ (i + Len(v)) - Len(v) = i
    BY <1>1, <2>1
  <2>3. i + Len(v) \in 1 .. Len(v) + Len(w) /\ x = (v \o w)[i + Len(v)]
    BY <1>1, <1>2, <2>1, <2>2
  <2> QED
    BY <1>1, <2>3 DEF ToSet
<1> QED
  BY <1>1, <1>3, <1>4, <1>5

(* A page is told once that its replay was truncated. *)
ToldOnce(w) == \A i, j \in DOMAIN w : w[i] = Truncated /\ w[j] = Truncated => i = j

LEMMA ToldOnceAhead ==
  ASSUME NEW S, NEW w \in Seq(S), w # << >>, ToldOnce(w)
  PROVE  /\ ToldOnce(Tail(w))
         /\ Head(w) = Truncated => Truncated \notin ToSet(Tail(w))
<1>1. /\ Len(w) \in Nat \ {0} /\ DOMAIN w = 1 .. Len(w) /\ Head(w) = w[1]
      /\ DOMAIN Tail(w) = 1 .. Len(w) - 1
      /\ \A i \in 1 .. Len(w) - 1 : Tail(w)[i] = w[i + 1]
  OBVIOUS
<1>2. \A i \in DOMAIN Tail(w) : i \in Nat /\ i + 1 \in DOMAIN w /\ i + 1 # 1
  BY <1>1
<1>3. ToldOnce(Tail(w))
  <2> SUFFICES ASSUME NEW i \in DOMAIN Tail(w), NEW j \in DOMAIN Tail(w),
                      Tail(w)[i] = Truncated, Tail(w)[j] = Truncated
               PROVE  i = j
    BY DEF ToldOnce
  <2>1. i + 1 = j + 1
    BY <1>1, <1>2 DEF ToldOnce
  <2> QED
    BY <1>2, <2>1
<1>4. ASSUME Head(w) = Truncated, Truncated \in ToSet(Tail(w)) PROVE FALSE
  <2>1. PICK i \in DOMAIN Tail(w) : Tail(w)[i] = Truncated
    BY <1>4 DEF ToSet
  <2>2. w[i + 1] = Truncated /\ w[1] = Truncated /\ 1 \in DOMAIN w
    BY <1>1, <1>4, <2>1
  <2> QED
    BY <1>2, <2>2 DEF ToldOnce
<1> QED
  BY <1>3, <1>4

LEMMA ToldOnceJoined ==
  ASSUME NEW S, NEW v \in Seq(S), NEW w \in Seq(S), ToldOnce(v), ToldOnce(w),
         Truncated \notin ToSet(v) \/ Truncated \notin ToSet(w)
  PROVE  ToldOnce(v \o w)
<1>1. /\ Len(v) \in Nat /\ Len(w) \in Nat
      /\ DOMAIN v = 1 .. Len(v) /\ DOMAIN w = 1 .. Len(w)
      /\ DOMAIN (v \o w) = 1 .. Len(v) + Len(w)
      /\ \A i \in 1 .. Len(v) : (v \o w)[i] = v[i]
  OBVIOUS
<1>2. \A i \in Len(v) + 1 .. Len(v) + Len(w) : (v \o w)[i] = w[i - Len(v)]
  OBVIOUS
<1> SUFFICES ASSUME NEW i \in DOMAIN (v \o w), NEW j \in DOMAIN (v \o w),
                    (v \o w)[i] = Truncated, (v \o w)[j] = Truncated
             PROVE  i = j
  BY DEF ToldOnce
<1>3. \A k \in DOMAIN (v \o w) : k \in 1 .. Len(v) \/ k \in Len(v) + 1 .. Len(v) + Len(w)
  BY <1>1
<1>4. ASSUME NEW k \in Len(v) + 1 .. Len(v) + Len(w)
      PROVE  k \in Int /\ k - Len(v) \in DOMAIN w /\ (v \o w)[k] = w[k - Len(v)]
  BY <1>1, <1>2
<1>5. ASSUME NEW k \in 1 .. Len(v)
      PROVE  k \in DOMAIN v /\ (v \o w)[k] = v[k]
  BY <1>1
<1>6. CASE i \in 1 .. Len(v) /\ j \in 1 .. Len(v)
  BY <1>5, <1>6 DEF ToldOnce
<1>7. CASE i \in Len(v) + 1 .. Len(v) + Len(w) /\ j \in Len(v) + 1 .. Len(v) + Len(w)
  <2>1. i - Len(v) = j - Len(v)
    BY <1>4, <1>7 DEF ToldOnce
  <2> QED
    BY <1>1, <1>4, <1>7, <2>1
<1>8. ASSUME NEW k \in 1 .. Len(v), NEW l \in Len(v) + 1 .. Len(v) + Len(w),
             (v \o w)[k] = Truncated, (v \o w)[l] = Truncated
      PROVE  FALSE
  BY <1>4, <1>5, <1>8 DEF ToSet
<1> QED
  BY <1>3, <1>6, <1>7, <1>8

LEMMA NotTold ==
  ASSUME NEW w, Truncated \notin ToSet(w)
  PROVE  ToldOnce(w)
  BY DEF ToSet, ToldOnce

(* A finite set in the order of its seq is a sequence of it. *)
LEMMA Ordered ==
  ASSUME NEW S, IsFiniteSet(S), NEW s \in InSeqOrder(S)
  PROVE  s \in Seq(S) /\ ToSet(s) = S
<1>1. Cardinality(S) \in Nat
  BY FS_CardinalityType
<1> QED
  BY <1>1 DEF InSeqOrder

LEMMA Wider ==
  ASSUME NEW S, NEW T, S \subseteq T, NEW w \in Seq(S)
  PROVE  w \in Seq(T)
  OBVIOUS

LEMMA HigherSeq ==
  ASSUME NEW m \in Nat, NEW n \in Nat
  PROVE  Max({m, n}) \in {m, n} /\ Max({m, n}) >= m /\ Max({m, n}) >= n
<1>1. \E x \in {m, n} : \A y \in {m, n} : x >= y
  OBVIOUS
<1> QED
  BY <1>1 DEF Max

PubOK ==
  /\ pub \in [Events -> {"new", "inserting", "committed", "done"}]
  /\ nextSeq \in Nat \ {0} /\ seq \in [Events -> 0 .. nextSeq - 1]
  /\ outbox \subseteq Events /\ IsFiniteSet(outbox)
  /\ \A e \in outbox : pub[e] \in {"committed", "done"}
  /\ \A e \in Events : /\ pub[e] \in {"inserting", "committed"} \/ e \in outbox => seq[e] > 0
                       /\ pub[e] = "committed" => e \in outbox

SessionsOK ==
  /\ session \in [Connections -> {"none", "replaying", "sending", "live", "gone"}]
  /\ allowed \in [Connections -> BOOLEAN] /\ whole \in [Connections -> BOOLEAN]
  /\ cursor \in [Connections -> 0 .. nextSeq - 1]
  /\ socket \in [Connections -> {"none", "open", "closed"}]
  /\ \A c, d \in Connections : socket[c] = "open" /\ socket[d] = "open" => c = d
  /\ \A c \in Connections : /\ socket[c] = "none" => session[c] = "none"
                            /\ whole[c] => session[c] = "live"

SentOK ==
  /\ rows \in [Connections -> Seq(outbox)]
  /\ wire \in [Connections -> Seq(outbox \cup {Truncated})]
  /\ \A c \in Connections : /\ IsInjective(rows[c])
                            /\ wire[c] # << >> => socket[c] = "open"

PageOK ==
  /\ lastSeq \in 0 .. nextSeq - 1 /\ seen \subseteq outbox
  /\ handled \in [Events -> Nat]
  /\ \A e \in Events : handled[e] > 0 <=> e \in seen

LEMMA PubStep == PubOK /\ [Next]_vars => PubOK'
<1> SUFFICES ASSUME PubOK, [Next]_vars PROVE PubOK'
  OBVIOUS
<1> USE DEF PubOK
<1>1. CASE UNCHANGED publishers
  BY <1>1 DEF publishers
<1>2. ASSUME NEW e \in Events, Insert(e) \/ InsertFails(e) \/ Dispatch(e) PROVE PubOK'
  BY <1>2 DEF Insert, InsertFails, Dispatch
<1>3. ASSUME NEW e \in Events, Commit(e) PROVE PubOK'
  <2>1. IsFiniteSet(outbox')
    BY <1>3, FS_AddElement DEF Commit
  <2> QED
    BY <1>3, <2>1 DEF Commit
<1>4. ASSUME NEW c \in Connections,
             Subscribe(c) \/ Serve(c) \/ HandleMessage(c) \/ Disconnect(c)
      PROVE  PubOK'
  BY <1>1, <1>4 DEF Subscribe, Serve, ReplayQuery, ReplayFails, ReplaySend, Unregister,
       HandleMessage, Disconnect
<1>5. CASE Crash
  BY <1>5 DEF Crash
<1> QED
  BY <1>1, <1>2, <1>3, <1>4, <1>5 DEF Next, Publish, vars

(* Rows are only ever added, and what the page and the sessions know of     *)
(* them stays so.                                                           *)
LEMMA Grows ==
  ASSUME PubOK, [Next]_vars
  PROVE  /\ nextSeq' \in Nat /\ nextSeq' >= nextSeq /\ outbox \subseteq outbox'
         /\ \A e \in outbox : seq'[e] = seq[e]
<1>1. CASE UNCHANGED publishers
  BY <1>1 DEF publishers, PubOK
<1>2. ASSUME NEW e \in Events, Publish(e)
      PROVE  /\ nextSeq' \in Nat /\ nextSeq' >= nextSeq /\ outbox \subseteq outbox'
             /\ \A d \in outbox : seq'[d] = seq[d]
  BY <1>2 DEF Publish, Insert, Commit, InsertFails, Dispatch, PubOK
<1>3. ASSUME NEW c \in Connections,
             Subscribe(c) \/ Serve(c) \/ HandleMessage(c) \/ Disconnect(c)
      PROVE  UNCHANGED publishers
  BY <1>3 DEF Subscribe, Serve, ReplayQuery, ReplayFails, ReplaySend, Unregister,
       HandleMessage, Disconnect
<1>4. CASE Crash
  BY <1>4 DEF Crash, PubOK
<1> QED
  BY <1>1, <1>2, <1>3, <1>4 DEF Next, vars

LEMMA Below ==
  ASSUME NEW m \in Nat, NEW n \in Nat, n >= m, NEW i \in 0 .. m - 1
  PROVE  i \in 0 .. n - 1
  OBVIOUS

LEMMA Forgotten ==
  ASSUME SessionsOK, nextSeq \in Nat \ {0}, NEW C, Forget(C)
  PROVE  /\ allowed' \in [Connections -> BOOLEAN]
         /\ cursor' \in [Connections -> 0 .. nextSeq - 1]
         /\ whole' \in [Connections -> BOOLEAN]
         /\ \A c \in Connections : whole'[c] => whole[c] /\ c \notin C
<1>1. \A c \in Connections : (allowed[c] /\ c \notin C) \in BOOLEAN /\ (whole[c] /\ c \notin C) \in BOOLEAN
  OBVIOUS
<1>2. allowed' \in [Connections -> BOOLEAN] /\ whole' \in [Connections -> BOOLEAN]
  BY <1>1, Zenon DEF Forget
<1>3. \A c \in Connections : (IF c \in C THEN 0 ELSE cursor[c]) \in 0 .. nextSeq - 1
  BY DEF SessionsOK
<1>4. cursor' \in [Connections -> 0 .. nextSeq - 1]
  BY <1>3 DEF Forget
<1>5. \A c \in Connections : whole'[c] = (whole[c] /\ c \notin C)
  BY DEF Forget
<1> QED
  BY <1>2, <1>4, <1>5

LEMMA SessionsStep == PubOK /\ SessionsOK /\ PageOK /\ [Next]_vars => SessionsOK'
<1> SUFFICES ASSUME PubOK, SessionsOK, PageOK, [Next]_vars PROVE SessionsOK'
  OBVIOUS
<1> USE DEF SessionsOK
<1>g. /\ nextSeq \in Nat /\ nextSeq' \in Nat /\ nextSeq' >= nextSeq
      /\ cursor \in [Connections -> 0 .. nextSeq' - 1]
      /\ lastSeq \in 0 .. nextSeq' - 1
  <2>1. nextSeq \in Nat /\ nextSeq' \in Nat /\ nextSeq' >= nextSeq
    BY Grows DEF PubOK
  <2>2. \A n \in 0 .. nextSeq - 1 : n \in 0 .. nextSeq' - 1
    BY <2>1, Below
  <2>3. lastSeq \in 0 .. nextSeq - 1
    BY DEF PageOK
  <2>4. \A c \in Connections : cursor[c] \in 0 .. nextSeq' - 1
    BY <2>2
  <2> QED
    BY <2>1, <2>2, <2>3, <2>4
<1>1. CASE UNCHANGED <<sessions, socket>>
  BY <1>g, <1>1 DEF sessions
<1>2. ASSUME NEW e \in Events, Publish(e) PROVE SessionsOK'
  BY <1>1, <1>2 DEF Publish, Insert, Commit, InsertFails, Dispatch
<1>3. ASSUME NEW c \in Connections, Subscribe(c) PROVE SessionsOK'
  BY <1>3, <1>g DEF Subscribe
<1>4. ASSUME NEW c \in Connections, ReplayQuery(c) \/ ReplayFails(c) PROVE SessionsOK'
  BY <1>4, <1>g DEF ReplayQuery, ReplayFails
<1>5. ASSUME NEW c \in Connections, ReplaySend(c) PROVE SessionsOK'
  BY <1>5, <1>g DEF ReplaySend
<1>6. ASSUME NEW c \in Connections, Unregister(c) PROVE SessionsOK'
  <2>1. /\ session' = [session EXCEPT ![c] = "gone"] /\ socket' = socket /\ socket[c] = "closed"
        /\ nextSeq' = nextSeq /\ Forget({c})
    BY <1>6 DEF Unregister, publishers
  <2>2. \A d \in Connections \ {c} : session'[d] = session[d]
    BY <2>1
  <2>3. nextSeq \in Nat \ {0}
    BY DEF PubOK
  <2> QED
    BY <2>1, <2>2, <2>3, Forgotten
<1>7. ASSUME NEW c \in Connections, HandleMessage(c) PROVE SessionsOK'
  BY <1>1, <1>7 DEF HandleMessage
<1>8. ASSUME NEW c \in Connections, Disconnect(c) PROVE SessionsOK'
  BY <1>8, <1>g DEF Disconnect, sessions
<1>9. CASE Crash
  <2>1. /\ session' = [c \in Connections |-> IF Registered(c) THEN "gone" ELSE session[c]]
        /\ socket' = [c \in Connections |-> IF socket[c] = "open" THEN "closed" ELSE socket[c]]
        /\ nextSeq' = nextSeq /\ Forget(Connections)
    BY <1>9 DEF Crash
  <2>2. nextSeq \in Nat \ {0}
    BY DEF PubOK
  <2>3. /\ allowed' \in [Connections -> BOOLEAN] /\ whole' \in [Connections -> BOOLEAN]
        /\ cursor' \in [Connections -> 0 .. nextSeq' - 1]
        /\ \A c \in Connections : ~whole'[c]
    BY <2>1, <2>2, Forgotten
  <2>4. \A c \in Connections : socket'[c] = "none" => session'[c] = "none"
    BY <2>1 DEF Registered
  <2> QED
    BY <2>1, <2>3, <2>4
<1> QED
  BY <1>1, <1>2, <1>3, <1>4, <1>5, <1>6, <1>7, <1>8, <1>9 DEF Next, Serve, vars

(* What Sent adds goes to an open socket. *)
LEMMA SentTo ==
  ASSUME NEW T, NEW c \in Connections, NEW msgs \in Seq(T), wire[c] \in Seq(T),
         wire[c] # << >> => socket[c] = "open"
  PROVE  /\ Sent(c, msgs) \in Seq(T)
         /\ Sent(c, msgs) # << >> => socket[c] = "open"
         /\ ToSet(wire[c]) \subseteq ToSet(Sent(c, msgs))
         /\ ToSet(Sent(c, msgs)) \subseteq ToSet(wire[c]) \cup ToSet(msgs)
         /\ socket[c] = "open" => ToSet(msgs) \subseteq ToSet(Sent(c, msgs))
<1>1. CASE socket[c] = "open"
  <2>1. Sent(c, msgs) = wire[c] \o msgs
    BY <1>1 DEF Sent
  <2>2. \A v, w \in Seq(T) : v \o w \in Seq(T) /\ ToSet(v \o w) = ToSet(v) \cup ToSet(w)
    <3> TAKE v, w \in Seq(T)
    <3> QED
      BY ONLY v \in Seq(T), w \in Seq(T), Concatenated
  <2>3. /\ wire[c] \o msgs \in Seq(T)
        /\ ToSet(wire[c] \o msgs) = ToSet(wire[c]) \cup ToSet(msgs)
    BY ONLY <2>2, wire[c] \in Seq(T), msgs \in Seq(T)
  <2> QED
    BY <1>1, <2>1, <2>3
<1>2. CASE socket[c] # "open"
  BY <1>2 DEF Sent
<1> QED
  BY <1>1, <1>2

LEMMA ToldOnceSent ==
  ASSUME NEW T, NEW c \in Connections, NEW msgs \in Seq(T), wire[c] \in Seq(T),
         ToldOnce(wire[c]), ToldOnce(msgs),
         Truncated \notin ToSet(wire[c]) \/ Truncated \notin ToSet(msgs)
  PROVE  ToldOnce(Sent(c, msgs))
  BY ToldOnceJoined DEF Sent

(* What the replay sends: the first rows, visible ones only. *)
LEMMA Replayed ==
  ASSUME PubOK, SentOK, NEW c \in Connections, NEW k \in Nat,
         NEW visible \in InSeqOrder(ToSet(SubSeq(rows[c], 1, k)) \cap Visible(c)),
         k <= Len(rows[c])
  PROVE  visible \in Seq(outbox) /\ ToSet(visible) = ToSet(SubSeq(rows[c], 1, k)) \cap Visible(c)
<1> DEFINE S == ToSet(SubSeq(rows[c], 1, k)) \cap Visible(c)
<1>1. ASSUME NEW x \in ToSet(SubSeq(rows[c], 1, k)) PROVE x \in outbox
  <2>1. rows[c] \in Seq(outbox) /\ SubSeq(rows[c], 1, k) \in Seq(outbox)
    BY DEF SentOK
  <2> QED
    BY <1>1, <2>1 DEF ToSet
<1>2. S \subseteq outbox
  BY <1>1
<1>3. IsFiniteSet(S)
  BY <1>2, FS_Subset DEF PubOK
<1>4. visible \in Seq(S) /\ ToSet(visible) = S
  BY <1>3, Ordered
<1> QED
  BY <1>2, <1>4, Wider

(* The rows and the messages of a replay, as ReplaySend finds and sends them. *)
LEMMA ReplaySent ==
  ASSUME PubOK, SessionsOK, SentOK, NEW c \in Connections, ReplaySend(c)
  PROVE  \E msgs \in Seq(outbox \cup {Truncated}) :
            /\ wire' = [wire EXCEPT ![c] = Sent(c, msgs)]
            /\ ToSet(msgs) \subseteq (ToSet(rows[c]) \cap Visible(c)) \cup {Truncated}
            /\ whole'[c] => ToSet(rows[c]) \cap Visible(c) \subseteq ToSet(msgs)
            /\ whole'[c] <=> Truncated \notin ToSet(msgs)
            /\ ToldOnce(msgs)
<1> DEFINE truncated == Len(rows[c]) > ReplayLimit
           toSend == IF truncated THEN SubSeq(rows[c], 1, ReplayLimit) ELSE rows[c]
           k == IF truncated THEN ReplayLimit ELSE Len(rows[c])
<1>1. rows[c] \in Seq(outbox) /\ Len(rows[c]) \in Nat /\ ReplayLimit \in Nat
  BY RealtimeAssumption DEF SentOK
<1>2. k \in Nat /\ k <= Len(rows[c]) /\ toSend = SubSeq(rows[c], 1, k)
  BY <1>1
<1>3. PICK visible \in InSeqOrder(ToSet(toSend) \cap Visible(c)) :
         wire' = [wire EXCEPT ![c] =
                     Sent(c, IF truncated THEN Append(visible, Truncated) ELSE visible)]
  BY DEF ReplaySend
<1>4. visible \in Seq(outbox) /\ ToSet(visible) = ToSet(toSend) \cap Visible(c)
  BY <1>2, <1>3, Replayed
<1>5. visible \in Seq(outbox \cup {Truncated})
  BY <1>4, Wider
<1>6. Truncated \notin ToSet(visible)
  BY <1>4, RealtimeAssumption DEF PubOK, Visible
<1>7. whole'[c] = ~truncated
  BY DEF ReplaySend, SessionsOK
<1>8. ToSet(toSend) \subseteq ToSet(rows[c])
  <2>1. /\ DOMAIN rows[c] = 1 .. Len(rows[c]) /\ DOMAIN SubSeq(rows[c], 1, k) = 1 .. k
        /\ \A i \in 1 .. k : SubSeq(rows[c], 1, k)[i] = rows[c][i]
    BY <1>1, <1>2
  <2>2. \A i \in 1 .. k : i \in 1 .. Len(rows[c])
    BY <1>1, <1>2
  <2> QED
    BY <1>2, <2>1, <2>2 DEF ToSet
<1>9. CASE truncated
  <2> DEFINE T == outbox \cup {Truncated}
             told == <<Truncated>>
             msgs == Append(visible, Truncated)
  <2>1. /\ told \in Seq(T) /\ ToSet(told) = {Truncated} /\ ToldOnce(told)
        /\ msgs = visible \o told
    BY <1>5 DEF ToSet, ToldOnce
  <2> HIDE DEF T, told, msgs
  <2>2. msgs \in Seq(T) /\ ToSet(msgs) = ToSet(visible) \cup {Truncated}
    <3>1. visible \in Seq(T)
      BY <1>5 DEF T
    <3> QED
      BY ONLY <2>1, <3>1, Concatenated
  <2>3. ToldOnce(msgs)
    <3>1. visible \in Seq(T) /\ ToldOnce(visible)
      BY <1>5, <1>6, NotTold DEF T
    <3> QED
      BY <1>6, <2>1, <3>1, ToldOnceJoined
  <2> USE DEF T, msgs
  <2> QED
    BY <1>3, <1>4, <1>7, <1>8, <1>9, <2>1, <2>2, <2>3
<1>10. CASE ~truncated
  <2>1. ToldOnce(visible)
    BY <1>6, NotTold
  <2> QED
    BY <1>3, <1>4, <1>5, <1>6, <1>7, <1>10, <2>1
<1> QED
  BY <1>9, <1>10

LEMMA SentStep == PubOK /\ SessionsOK /\ SentOK /\ [Next]_vars => SentOK'
<1> SUFFICES ASSUME PubOK, SessionsOK, SentOK, [Next]_vars PROVE SentOK'
  OBVIOUS
<1> DEFINE T == outbox \cup {Truncated}
<1>g. outbox \subseteq outbox'
  BY Grows
<1>w. /\ \A w \in Seq(outbox) : w \in Seq(outbox')
      /\ \A w \in Seq(T) : w \in Seq(T')
  BY <1>g, Wider
<1>1. ASSUME UNCHANGED rows, wire' \in [Connections -> Seq(T)],
             \A c \in Connections : wire'[c] # << >> => socket'[c] = "open"
      PROVE  SentOK'
  <2>1. wire' \in [Connections -> Seq(T')] /\ rows \in [Connections -> Seq(outbox')]
    BY <1>1, <1>w DEF SentOK
  <2> QED
    BY <1>1, <2>1 DEF SentOK
<1>2. CASE UNCHANGED <<rows, wire>> /\ \A c \in Connections : socket[c] = "open" => socket'[c] = "open"
  BY <1>1, <1>2 DEF SentOK
<1>3. ASSUME NEW e \in Events, Insert(e) \/ Commit(e) \/ InsertFails(e) PROVE SentOK'
  BY <1>2, <1>3 DEF Insert, Commit, InsertFails, sessions
<1>4. ASSUME NEW e \in Events, Dispatch(e) PROVE SentOK'
  <2>1. e \in outbox /\ UNCHANGED <<rows, socket>>
        /\ wire' = [c \in Connections |->
                      IF Registered(c) /\ e \in Visible(c) THEN Sent(c, <<e>>) ELSE wire[c]]
    BY <1>4 DEF Dispatch, PubOK, sessions
  <2>2. <<e>> \in Seq(T)
    BY <2>1
  <2>3. \A c \in Connections : Sent(c, <<e>>) \in Seq(T) /\ (Sent(c, <<e>>) # << >> => socket[c] = "open")
    BY <2>2, SentTo DEF SentOK
  <2>4. \A c \in Connections : wire'[c] \in Seq(T) /\ (wire'[c] # << >> => socket'[c] = "open")
    BY <2>1, <2>3 DEF SentOK
  <2> QED
    BY <1>1, <2>1, <2>4
<1>5. ASSUME NEW c \in Connections, Subscribe(c) PROVE SentOK'
  BY <1>2, <1>5 DEF Subscribe
<1>6. ASSUME NEW c \in Connections, ReplayQuery(c) PROVE SentOK'
  <2> DEFINE S == {e \in outbox : seq[e] > cursor[c]}
  <2>1. PICK above \in InSeqOrder(S) : rows' = [rows EXCEPT ![c] = above]
    BY <1>6 DEF ReplayQuery
  <2>2. IsFiniteSet(S) /\ S \subseteq outbox
    BY FS_Subset DEF PubOK
  <2>3. above \in Seq(outbox)
    BY <2>1, <2>2, Ordered, Wider
  <2>4. IsInjective(above)
    <3>1. DOMAIN above = 1 .. Len(above) /\ Len(above) \in Nat
      BY <2>3
    <3>2. \A i \in DOMAIN above : above[i] \in Events /\ seq[above[i]] \in Nat
      BY <2>3, <3>1 DEF PubOK
    <3>3. \A i, j \in DOMAIN above : i < j => seq[above[i]] < seq[above[j]]
      BY <2>1 DEF InSeqOrder
    <3>4. \A i, j \in DOMAIN above : above[i] = above[j] => i = j
      BY <3>1, <3>2, <3>3
    <3> QED
      BY <3>4 DEF IsInjective
  <2>5. wire' = wire /\ socket' = socket /\ outbox' = outbox
    BY <1>6 DEF ReplayQuery, publishers
  <2> QED
    BY <2>1, <2>3, <2>4, <2>5 DEF SentOK
<1>7. ASSUME NEW c \in Connections, ReplayFails(c) \/ Unregister(c) PROVE SentOK'
  BY <1>2, <1>7 DEF ReplayFails, Unregister
<1>8. ASSUME NEW c \in Connections, ReplaySend(c) PROVE SentOK'
  <2>1. PICK msgs \in Seq(T) : wire' = [wire EXCEPT ![c] = Sent(c, msgs)]
    BY <1>8, ReplaySent
  <2>2. Sent(c, msgs) \in Seq(T) /\ (Sent(c, msgs) # << >> => socket[c] = "open")
    BY <2>1, SentTo DEF SentOK
  <2>3. rows' = [rows EXCEPT ![c] = << >>] /\ socket' = socket /\ outbox' = outbox
    BY <1>8 DEF ReplaySend, publishers
  <2>4. << >> \in Seq(outbox) /\ IsInjective(<< >>)
    BY DEF IsInjective
  <2> QED
    BY <2>1, <2>2, <2>3, <2>4 DEF SentOK
<1>9. ASSUME NEW c \in Connections, HandleMessage(c) PROVE SentOK'
  <2>1. wire[c] # << >> /\ wire' = [wire EXCEPT ![c] = Tail(@)] /\ UNCHANGED <<rows, socket>>
    BY <1>9 DEF HandleMessage, sessions
  <2>2. Tail(wire[c]) \in Seq(T)
    BY <2>1, Consumed DEF SentOK
  <2> QED
    BY <1>1, <2>1, <2>2 DEF SentOK
<1>10. ASSUME NEW c \in Connections, Disconnect(c) PROVE SentOK'
  <2>1. /\ wire' = [wire EXCEPT ![c] = << >>] /\ socket' = [socket EXCEPT ![c] = "closed"]
        /\ UNCHANGED rows
    BY <1>10 DEF Disconnect, sessions
  <2>2. << >> \in Seq(T)
    OBVIOUS
  <2>3. \A d \in Connections \ {c} : wire'[d] = wire[d] /\ socket'[d] = socket[d]
    BY <2>1 DEF SentOK, SessionsOK
  <2>4. wire' \in [Connections -> Seq(T)] /\ wire'[c] = << >>
    BY <2>1, <2>2 DEF SentOK
  <2> QED
    BY <1>1, <2>1, <2>3, <2>4 DEF SentOK
<1>11. CASE Crash
  <2>1. << >> \in Seq(outbox') /\ << >> \in Seq(T') /\ IsInjective(<< >>)
    BY DEF IsInjective
  <2> QED
    BY <1>11, <2>1 DEF Crash, SentOK
<1>12. CASE UNCHANGED vars
  BY <1>2, <1>12 DEF vars, sessions
<1> QED
  BY <1>3, <1>4, <1>5, <1>6, <1>7, <1>8, <1>9, <1>10, <1>11, <1>12 DEF Next, Publish, Serve

LEMMA PageStep == PubOK /\ SentOK /\ PageOK /\ [Next]_vars => PageOK'
<1> SUFFICES ASSUME PubOK, SentOK, PageOK, [Next]_vars PROVE PageOK'
  OBVIOUS
<1>g. /\ nextSeq \in Nat /\ nextSeq' \in Nat /\ nextSeq' >= nextSeq /\ outbox \subseteq outbox'
  BY Grows DEF PubOK
<1>1. CASE UNCHANGED page
  <2>1. lastSeq \in 0 .. nextSeq' - 1
    BY <1>g, Below DEF PageOK
  <2> QED
    BY <1>1, <1>g, <2>1 DEF PageOK, page
<1>2. ASSUME NEW c \in Connections, HandleMessage(c) PROVE PageOK'
  <2> DEFINE m == Head(wire[c])
  <2>0. /\ UNCHANGED <<nextSeq, outbox>> /\ m \in outbox \cup {Truncated}
        /\ outbox \subseteq Events
    BY <1>2, Consumed DEF HandleMessage, publishers, SentOK, PubOK
  <2>1. CASE lastSeq' = 0 /\ seen' = {} /\ handled' = [e \in Events |-> 0]
    BY <1>g, <2>0, <2>1 DEF PageOK, PubOK
  <2>2. CASE UNCHANGED page
    BY <1>1, <2>2
  <2>3. CASE /\ m \in Events \ seen /\ seen' = seen \cup {m}
             /\ lastSeq' = Max({lastSeq, seq[m]})
             /\ handled' = [handled EXCEPT ![m] = @ + 1]
    <3>1. m \in outbox
      BY <2>0, <2>3, RealtimeAssumption
    <3>2. lastSeq \in Nat /\ seq[m] \in Nat /\ seq[m] \in 0 .. nextSeq - 1 /\ lastSeq \in 0 .. nextSeq - 1
      BY <2>3 DEF PageOK, PubOK
    <3>3. lastSeq' \in {lastSeq, seq[m]}
      BY <2>3, <3>2, HigherSeq
    <3> QED
      BY <2>0, <2>3, <3>1, <3>2, <3>3 DEF PageOK
  <2> QED
    BY <1>2, <2>1, <2>2, <2>3 DEF HandleMessage
<1>3. ASSUME NEW e \in Events, Publish(e) PROVE PageOK'
  BY <1>1, <1>3 DEF Publish, Insert, Commit, InsertFails, Dispatch
<1>4. ASSUME NEW c \in Connections, Serve(c) \/ Subscribe(c) \/ Disconnect(c) PROVE PageOK'
  BY <1>1, <1>4 DEF Serve, ReplayQuery, ReplayFails, ReplaySend, Unregister, Subscribe, Disconnect
<1>5. CASE Crash \/ UNCHANGED vars
  BY <1>1, <1>5 DEF Crash, vars
<1> QED
  BY <1>2, <1>3, <1>4, <1>5 DEF Next

Typed == PubOK /\ SessionsOK /\ SentOK /\ PageOK

LEMMA TypedInit == Init => Typed
<1> SUFFICES ASSUME Init PROVE Typed
  OBVIOUS
<1>1. PubOK
  BY FS_EmptySet DEF Init, PubOK
<1>2. SessionsOK
  BY DEF Init, SessionsOK
<1>3. SentOK
  BY DEF Init, SentOK, IsInjective
<1>4. PageOK
  BY DEF Init, PageOK
<1> QED
  BY <1>1, <1>2, <1>3, <1>4 DEF Typed

LEMMA TypedStep == Typed /\ [Next]_vars => Typed'
  BY PubStep, SessionsStep, SentStep, PageStep DEF Typed

(* Cursors name seqs that were drawn, and only committed events are on      *)
(* their way or known to the page.                                          *)
THEOREM TypeCorrect == Spec => []TypeOK
<1>1. Typed => TypeOK
  <2> SUFFICES ASSUME Typed PROVE TypeOK
    OBVIOUS
  <2>1. outbox \subseteq {e \in Events : seq[e] > 0}
    BY DEF Typed, PubOK
  <2> QED
    BY <2>1 DEF Typed, PubOK, SessionsOK, SentOK, PageOK, TypeOK
<1> QED
  BY <1>1, TypedInit, TypedStep, PTL DEF Spec

Held(c, e) == handled[e] > 0 \/ e \in ToSet(wire[c])

Owed(c, e) ==
  /\ socket[c] = "open" /\ e \in outbox /\ e \in Visible(c)
  /\ pub[e] = "done" /\ seq[e] > cursor[c]

(* The message that clears the page's cursor is never ahead of a replay     *)
(* that goes through whole.                                                 *)
CutOffOK ==
  \A c \in Connections : Truncated \in ToSet(wire[c]) =>
    session[c] \in {"live", "gone"} /\ ~whole[c]

(* Between the query and the sends of a replay an event may be among the    *)
(* rows only.                                                               *)
OwedOK ==
  \A c \in Connections, e \in Events : Owed(c, e) =>
    /\ session[c] = "sending" => Held(c, e) \/ e \in ToSet(rows[c])
    /\ session[c] = "live" /\ whole[c] => Held(c, e)

LEMMA CutOffStep == Typed /\ CutOffOK /\ [Next]_vars => CutOffOK'
<1> SUFFICES ASSUME Typed, CutOffOK, [Next]_vars PROVE CutOffOK'
  OBVIOUS
<1> USE DEF CutOffOK
<1>t. PubOK /\ SessionsOK /\ SentOK
  BY DEF Typed
<1>1. CASE UNCHANGED <<session, whole>>
           /\ \A c \in Connections : ToSet(wire'[c]) \subseteq ToSet(wire[c]) \cup Events
  BY <1>1, RealtimeAssumption
<1>2. ASSUME NEW e \in Events, Insert(e) \/ Commit(e) \/ InsertFails(e) PROVE CutOffOK'
  BY <1>2 DEF Insert, Commit, InsertFails, sessions
<1>3. ASSUME NEW e \in Events, Dispatch(e) PROVE CutOffOK'
  <2>1. <<e>> \in Seq(outbox \cup {Truncated}) /\ ToSet(<<e>>) = {e}
    BY <1>3, <1>t DEF Dispatch, PubOK, ToSet
  <2>2. \A c \in Connections : ToSet(Sent(c, <<e>>)) \subseteq ToSet(wire[c]) \cup {e}
    BY <1>t, <2>1, SentTo DEF SentOK
  <2>3. \A c \in Connections : ToSet(wire'[c]) \subseteq ToSet(wire[c]) \cup Events
    BY <1>3, <2>2 DEF Dispatch
  <2> QED
    BY <1>1, <1>3, <2>3 DEF Dispatch, sessions
<1>4. ASSUME NEW c \in Connections, Subscribe(c) PROVE CutOffOK'
  <2>1. wire[c] = << >> /\ wire' = wire /\ whole' = whole
    BY <1>4, <1>t DEF Subscribe, SentOK
  <2>2. \A d \in Connections \ {c} : session'[d] = session[d]
    BY <1>4, <1>t DEF Subscribe, SessionsOK
  <2>3. Truncated \notin ToSet(wire[c])
    BY <2>1 DEF ToSet
  <2> QED
    BY <2>1, <2>2, <2>3
<1>5. ASSUME NEW c \in Connections, ReplayQuery(c) \/ ReplayFails(c) PROVE CutOffOK'
  <2>1. session[c] = "replaying" /\ UNCHANGED <<wire, whole>>
        /\ \A d \in Connections \ {c} : session'[d] = session[d]
    BY <1>5, <1>t DEF ReplayQuery, ReplayFails, SessionsOK
  <2> QED
    BY <2>1
<1>6. ASSUME NEW c \in Connections, ReplaySend(c) PROVE CutOffOK'
  <2>1. PICK msgs \in Seq(outbox \cup {Truncated}) :
           /\ wire' = [wire EXCEPT ![c] = Sent(c, msgs)]
           /\ whole'[c] => Truncated \notin ToSet(msgs)
    BY <1>6, <1>t, ReplaySent
  <2>2. ToSet(Sent(c, msgs)) \subseteq ToSet(wire[c]) \cup ToSet(msgs)
    BY <1>t, SentTo DEF SentOK
  <2>3. /\ session[c] = "sending" /\ session'[c] = "live"
        /\ \A d \in Connections \ {c} : /\ session'[d] = session[d] /\ whole'[d] = whole[d]
                                        /\ wire'[d] = wire[d]
        /\ wire'[c] = Sent(c, msgs)
    BY <1>6, <1>t, <2>1 DEF ReplaySend, SessionsOK, SentOK
  <2>4. Truncated \in ToSet(wire'[c]) => ~whole'[c]
    BY <2>1, <2>2, <2>3
  <2> QED
    BY <2>3, <2>4
<1>7. ASSUME NEW c \in Connections, Unregister(c) PROVE CutOffOK'
  <2>1. nextSeq \in Nat \ {0}
    BY <1>t DEF PubOK
  <2>2. \A d \in Connections : whole'[d] => whole[d]
    BY <1>7, <1>t, <2>1, Forgotten DEF Unregister
  <2>3. wire' = wire /\ \A d \in Connections : session'[d] = "gone" \/ session'[d] = session[d]
    BY <1>7, <1>t DEF Unregister, SessionsOK
  <2> QED
    BY <2>2, <2>3
<1>8. ASSUME NEW c \in Connections, HandleMessage(c) PROVE CutOffOK'
  <2>1. wire[c] # << >> /\ wire' = [wire EXCEPT ![c] = Tail(@)] /\ UNCHANGED <<session, whole>>
    BY <1>8 DEF HandleMessage, sessions
  <2>2. ToSet(Tail(wire[c])) \subseteq ToSet(wire[c])
    BY <1>t, <2>1, Consumed DEF SentOK
  <2> QED
    BY <1>1, <1>t, <2>1, <2>2 DEF SentOK
<1>9. ASSUME NEW c \in Connections, Disconnect(c) PROVE CutOffOK'
  <2>1. wire' = [wire EXCEPT ![c] = << >>] /\ UNCHANGED <<session, whole>>
    BY <1>9 DEF Disconnect, sessions
  <2>2. ToSet(<< >>) = {}
    BY DEF ToSet
  <2> QED
    BY <1>1, <1>t, <2>1, <2>2 DEF SentOK
<1>10. CASE Crash
  <2>1. \A c \in Connections : ToSet(wire'[c]) = {}
    BY <1>10 DEF Crash, ToSet
  <2> QED
    BY <2>1
<1>11. CASE UNCHANGED vars
  BY <1>11 DEF vars, sessions
<1> QED
  BY <1>2, <1>3, <1>4, <1>5, <1>6, <1>7, <1>8, <1>9, <1>10, <1>11 DEF Next, Publish, Serve

LEMMA OwedStep == Typed /\ CutOffOK /\ OwedOK /\ [Next]_vars => OwedOK'
<1> SUFFICES ASSUME Typed, CutOffOK, OwedOK, [Next]_vars,
                    NEW c \in Connections, NEW e \in Events, Owed(c, e)',
                    session'[c] = "sending" \/ (session'[c] = "live" /\ whole'[c])
             PROVE  Held(c, e)' \/ (session'[c] = "sending" /\ e \in ToSet(rows'[c]))
  BY DEF OwedOK
<1>t. PubOK /\ SessionsOK /\ SentOK /\ PageOK
  BY DEF Typed
<1>1. ASSUME UNCHANGED <<publishers, sessions, socket>>, Held(c, e) => Held(c, e)'
      PROVE  Held(c, e)' \/ (session'[c] = "sending" /\ e \in ToSet(rows'[c]))
  BY <1>1 DEF publishers, sessions, Owed, OwedOK, Visible
<1>2. ASSUME NEW d \in Events, Insert(d) PROVE Held(c, e) \/ (session[c] = "sending" /\ e \in ToSet(rows[c]))
  BY <1>2, <1>t DEF Insert, PubOK, sessions, Owed, OwedOK, Visible
<1>3. ASSUME NEW d \in Events, Commit(d) PROVE Held(c, e) \/ (session[c] = "sending" /\ e \in ToSet(rows[c]))
  BY <1>3, <1>t DEF Commit, PubOK, sessions, Owed, OwedOK, Visible
<1>4. ASSUME NEW d \in Events, InsertFails(d) PROVE Held(c, e) \/ (session[c] = "sending" /\ e \in ToSet(rows[c]))
  <2>1. d \notin outbox /\ outbox' = outbox
    BY <1>4, <1>t DEF InsertFails, PubOK
  <2> QED
    BY <1>4, <1>t, <2>1 DEF InsertFails, PubOK, sessions, Owed, OwedOK, Visible
<1>5. ASSUME NEW d \in Events, Dispatch(d)
      PROVE  Held(c, e)' \/ (session'[c] = "sending" /\ e \in ToSet(rows'[c]))
  <2>1. <<d>> \in Seq(outbox \cup {Truncated}) /\ ToSet(<<d>>) = {d}
    BY <1>5, <1>t DEF Dispatch, PubOK, ToSet
  <2>2. /\ ToSet(wire[c]) \subseteq ToSet(Sent(c, <<d>>))
        /\ socket[c] = "open" => d \in ToSet(Sent(c, <<d>>))
    BY <1>t, <2>1, SentTo DEF SentOK
  <2>3. /\ wire'[c] = IF Registered(c) /\ d \in Visible(c) THEN Sent(c, <<d>>) ELSE wire[c]
        /\ UNCHANGED <<outbox, seq, session, allowed, cursor, rows, whole, socket, handled>>
        /\ pub' = [pub EXCEPT ![d] = "done"]
    BY <1>5 DEF Dispatch, sessions, page
  <2>4. CASE e = d
    <3>1. Registered(c) /\ d \in Visible(c) /\ socket[c] = "open"
      BY <2>3, <2>4 DEF Registered, Owed, Visible
    <3> QED
      BY <2>2, <2>3, <2>4, <3>1 DEF Held
  <2>5. CASE e # d
    <3>1. Owed(c, e)
      BY <1>t, <2>3, <2>5 DEF Owed, Visible, PubOK
    <3> QED
      BY <2>2, <2>3, <3>1 DEF Held, OwedOK
  <2> QED
    BY <2>4, <2>5
<1>6. ASSUME NEW d \in Connections, Subscribe(d)
      PROVE  Held(c, e) \/ (session[c] = "sending" /\ e \in ToSet(rows[c]))
  <2>1. session[d] = "none" /\ ~whole[d] /\ whole' = whole /\ session'[d] # "sending"
    BY <1>6, <1>t DEF Subscribe, SessionsOK
  <2>2. c # d
    BY <2>1
  <2>3. /\ UNCHANGED <<pub, outbox, seq, rows, whole>>
        /\ session'[c] = session[c] /\ allowed'[c] = allowed[c] /\ cursor'[c] = cursor[c]
        /\ socket'[c] = socket[c]
    BY <1>6, <1>t, <2>2 DEF Subscribe, SessionsOK, publishers
  <2> QED
    BY <2>3 DEF Owed, OwedOK, Visible
<1>7. ASSUME NEW d \in Connections, ReplayQuery(d)
      PROVE  Held(c, e) \/ (session'[c] = "sending" /\ e \in ToSet(rows'[c]))
  <2>1. /\ UNCHANGED <<pub, outbox, seq, allowed, cursor, whole, socket>>
        /\ session' = [session EXCEPT ![d] = "sending"]
    BY <1>7 DEF ReplayQuery, publishers
  <2>2. Owed(c, e)
    BY <2>1 DEF Owed, Visible
  <2>3. CASE c = d
    <3> DEFINE S == {x \in outbox : seq[x] > cursor[d]}
    <3>1. PICK above \in InSeqOrder(S) : rows' = [rows EXCEPT ![d] = above]
      BY <1>7 DEF ReplayQuery
    <3>2. ToSet(above) = S
      BY DEF InSeqOrder
    <3>3. e \in S
      BY <2>2, <2>3 DEF Owed
    <3> QED
      BY <1>t, <2>1, <2>3, <3>1, <3>2, <3>3 DEF SessionsOK, SentOK
  <2>4. CASE c # d
    <3>1. rows'[c] = rows[c] /\ session'[c] = session[c]
      BY <1>7, <1>t, <2>4 DEF ReplayQuery, SessionsOK, SentOK
    <3> QED
      BY <2>1, <2>2, <3>1 DEF OwedOK
  <2> QED
    BY <2>3, <2>4
<1>8. ASSUME NEW d \in Connections, ReplayFails(d)
      PROVE  Held(c, e) \/ (session[c] = "sending" /\ e \in ToSet(rows[c]))
  <2>1. /\ UNCHANGED <<pub, outbox, seq, allowed, cursor, whole, socket, rows>>
        /\ session' = [session EXCEPT ![d] = "live"] /\ session[d] = "replaying"
    BY <1>8 DEF ReplayFails, publishers
  <2>2. c # d
    BY <1>t, <2>1 DEF SessionsOK
  <2>3. session'[c] = session[c] /\ Owed(c, e)
    BY <1>t, <2>1, <2>2 DEF Owed, Visible, SessionsOK
  <2> QED
    BY <2>1, <2>3 DEF OwedOK
<1>9. ASSUME NEW d \in Connections, ReplaySend(d)
      PROVE  Held(c, e)' \/ (session'[c] = "sending" /\ e \in ToSet(rows'[c]))
  <2>1. PICK msgs \in Seq(outbox \cup {Truncated}) :
           /\ wire' = [wire EXCEPT ![d] = Sent(d, msgs)]
           /\ whole'[d] => ToSet(rows[d]) \cap Visible(d) \subseteq ToSet(msgs)
    BY <1>9, <1>t, ReplaySent
  <2>2. /\ ToSet(wire[d]) \subseteq ToSet(Sent(d, msgs))
        /\ socket[d] = "open" => ToSet(msgs) \subseteq ToSet(Sent(d, msgs))
    BY <1>t, SentTo DEF SentOK
  <2>3. /\ UNCHANGED <<pub, outbox, seq, allowed, cursor, socket, handled>>
        /\ session[d] = "sending" /\ session' = [session EXCEPT ![d] = "live"]
    BY <1>9 DEF ReplaySend, publishers, page
  <2>4. Owed(c, e)
    BY <2>3 DEF Owed, Visible
  <2>5. CASE c = d
    <3>1. whole'[d] /\ wire'[c] = Sent(d, msgs)
      BY <1>t, <2>1, <2>3, <2>5 DEF SessionsOK, SentOK
    <3>2. Held(c, e) \/ e \in ToSet(rows[c])
      BY <2>3, <2>4, <2>5 DEF OwedOK
    <3> QED
      BY <2>1, <2>2, <2>3, <2>4, <2>5, <3>1, <3>2 DEF Held, Owed
  <2>6. CASE c # d
    <3>1. rows'[c] = rows[c] /\ session'[c] = session[c] /\ whole'[c] = whole[c] /\ wire'[c] = wire[c]
      BY <1>9, <1>t, <2>1, <2>6 DEF ReplaySend, SessionsOK, SentOK
    <3> QED
      BY <2>3, <2>4, <3>1 DEF OwedOK, Held
  <2> QED
    BY <2>5, <2>6
<1>10. ASSUME NEW d \in Connections, Unregister(d)
       PROVE  Held(c, e) \/ (session[c] = "sending" /\ e \in ToSet(rows[c]))
  <2>1. /\ UNCHANGED <<pub, outbox, seq, socket, rows>>
        /\ session' = [session EXCEPT ![d] = "gone"] /\ session[d] = "live" /\ Forget({d})
    BY <1>10 DEF Unregister, publishers
  <2>2. c # d
    BY <1>t, <2>1 DEF SessionsOK
  <2>3. session'[c] = session[c] /\ allowed'[c] = allowed[c] /\ cursor'[c] = cursor[c]
    BY <1>t, <2>1, <2>2 DEF Forget, SessionsOK
  <2>4. whole'[c] => whole[c]
    BY <1>t, <2>1, Forgotten DEF PubOK
  <2> QED
    BY <2>1, <2>3, <2>4 DEF Owed, OwedOK, Visible
<1>11. ASSUME NEW d \in Connections, HandleMessage(d)
       PROVE  Held(c, e)' \/ (session'[c] = "sending" /\ e \in ToSet(rows'[c]))
  <2> DEFINE m == Head(wire[d])
  <2>1. wire[d] # << >> /\ wire' = [wire EXCEPT ![d] = Tail(@)]
        /\ UNCHANGED <<publishers, sessions, socket>>
    BY <1>11 DEF HandleMessage
  <2>2. /\ m \in ToSet(wire[d]) /\ m \in outbox \cup {Truncated}
        /\ ToSet(wire[d]) \subseteq ToSet(Tail(wire[d])) \cup {m}
    BY <1>t, <2>1, Consumed DEF SentOK
  <2>3. c = d
    BY <1>t, <2>1 DEF Owed, SessionsOK, SentOK
  <2>4. m # Truncated
    BY <2>1, <2>2, <2>3 DEF CutOffOK, sessions
  <2>5. m \in Events /\ \A x \in Events : handled[x] > 0 => handled'[x] > 0
    BY <1>11, <1>t, <2>2, <2>4 DEF HandleMessage, PageOK, PubOK, page
  <2>6. handled'[m] > 0
    BY <1>11, <1>t, <2>4, <2>5 DEF HandleMessage, PageOK, page
  <2>7. wire'[c] = Tail(wire[d])
    BY <1>t, <2>1, <2>3 DEF SentOK
  <2>8. Held(c, e) => Held(c, e)'
    BY <2>2, <2>3, <2>5, <2>6, <2>7 DEF Held
  <2> QED
    BY <1>1, <2>1, <2>8
<1>12. ASSUME NEW d \in Connections, Disconnect(d)
       PROVE  Held(c, e)' \/ (session'[c] = "sending" /\ e \in ToSet(rows'[c]))
  <2>1. /\ UNCHANGED <<publishers, sessions, page>> /\ wire' = [wire EXCEPT ![d] = << >>]
        /\ socket' = [socket EXCEPT ![d] = "closed"]
    BY <1>12 DEF Disconnect
  <2>2. c # d
    BY <1>t, <2>1 DEF Owed, SessionsOK
  <2>3. wire'[c] = wire[c] /\ socket'[c] = socket[c]
    BY <1>t, <2>1, <2>2 DEF SessionsOK, SentOK
  <2> QED
    BY <2>1, <2>3 DEF Owed, OwedOK, Held, Visible, publishers, sessions, page
<1>13. CASE Crash
  BY <1>13, <1>t DEF Crash, Owed, SessionsOK
<1>14. CASE UNCHANGED vars
  BY <1>1, <1>14 DEF vars, page, Held
<1> QED
  <2>1. ASSUME NEW d \in Events, Publish(d)
        PROVE  Held(c, e)' \/ (session'[c] = "sending" /\ e \in ToSet(rows'[c]))
    <3>1. ASSUME Insert(d) \/ Commit(d) \/ InsertFails(d)
          PROVE  Held(c, e)' \/ (session'[c] = "sending" /\ e \in ToSet(rows'[c]))
      <4>1. UNCHANGED <<sessions, wire, page>>
        BY <3>1 DEF Insert, Commit, InsertFails
      <4>2. Held(c, e) \/ (session[c] = "sending" /\ e \in ToSet(rows[c]))
        BY <1>2, <1>3, <1>4, <3>1
      <4> QED
        BY <4>1, <4>2 DEF sessions, page, Held
    <3> QED
      BY <1>5, <2>1, <3>1 DEF Publish
  <2>2. ASSUME NEW d \in Connections, Subscribe(d)
        PROVE  Held(c, e)' \/ (session'[c] = "sending" /\ e \in ToSet(rows'[c]))
    <3>1. UNCHANGED <<rows, wire, page>> /\ session'[d] # "sending" /\ ~whole'[d]
      BY <2>2, <1>t DEF Subscribe, SessionsOK
    <3>2. session'[c] = session[c]
      BY <2>2, <1>t, <3>1 DEF Subscribe, SessionsOK
    <3> QED
      BY <1>6, <2>2, <3>1, <3>2 DEF page, Held
  <2>3. ASSUME NEW d \in Connections, ReplayQuery(d)
        PROVE  Held(c, e)' \/ (session'[c] = "sending" /\ e \in ToSet(rows'[c]))
    <3>1. UNCHANGED <<wire, handled>>
      BY <2>3 DEF ReplayQuery, page
    <3> QED
      BY <1>7, <2>3, <3>1 DEF Held
  <2>4. ASSUME NEW d \in Connections, ReplayFails(d) \/ Unregister(d)
        PROVE  Held(c, e)' \/ (session'[c] = "sending" /\ e \in ToSet(rows'[c]))
    <3>1. UNCHANGED <<rows, wire, page>> /\ session'[d] # "sending"
          /\ (c # d => session'[c] = session[c])
      BY <2>4, <1>t DEF ReplayFails, Unregister, SessionsOK
    <3>2. session[d] # "sending"
      BY <2>4 DEF ReplayFails, Unregister
    <3> QED
      BY <1>8, <1>10, <2>4, <3>1, <3>2 DEF Held, page
  <2> QED
    BY <1>9, <1>11, <1>12, <1>13, <1>14, <2>1, <2>2, <2>3, <2>4 DEF Next, Serve

LEMMA OwedInit == Init => CutOffOK /\ OwedOK
<1> SUFFICES ASSUME Init PROVE CutOffOK /\ OwedOK
  OBVIOUS
<1>1. \A c \in Connections : ToSet(wire[c]) = {} /\ socket[c] = "none"
  BY DEF Init, ToSet
<1> QED
  BY <1>1 DEF CutOffOK, OwedOK, Owed

(* On a connection that has stood since its handshake and whose replay went *)
(* through, no published event above the cursor is missed, whichever way    *)
(* replay, live delivery, commits and crashes interleave.                   *)
THEOREM NothingIsMissed == Spec => []NoGap
<1>1. Typed /\ OwedOK => NoGap
  BY DEF NoGap, OwedOK, Owed, Held, Typed, PubOK
<1> QED
  BY <1>1, TypedInit, OwedInit, TypedStep, CutOffStep, OwedStep, PTL DEF Spec
-----------------------------------------------------------------------------
(* Realtime implements EventFeed.  What the feed needs beyond the above: an *)
(* open socket has a session, the page's cursor is the highest seq it has   *)
(* handled, and a replay finds only what lies above its session's.          *)

NewIsUndrawn == \A e \in Events : pub[e] = "new" => seq[e] = 0

OpenIsServed == \A c \in Connections : Open(c) => Registered(c)

CursorIsHighest ==
  /\ \A e \in Events : handled[e] > 0 => seq[e] <= lastSeq
  /\ lastSeq > 0 => \E e \in Events : handled[e] > 0 /\ seq[e] = lastSeq

EachToldOnce == \A c \in Connections : ToldOnce(wire[c])

RowsAreAbove ==
  \A c \in Connections :
    session[c] = "sending" => \A e \in ToSet(rows[c]) : seq[e] > cursor[c]

FeedInv == NewIsUndrawn /\ OpenIsServed /\ CursorIsHighest /\ EachToldOnce /\ RowsAreAbove

LEMMA UndrawnStep == PubOK /\ NewIsUndrawn /\ [Next]_vars => NewIsUndrawn'
<1> SUFFICES ASSUME PubOK, NewIsUndrawn, [Next]_vars PROVE NewIsUndrawn'
  OBVIOUS
<1>1. ASSUME NEW e \in Events, Publish(e) PROVE NewIsUndrawn'
  BY <1>1 DEF Publish, Insert, Commit, InsertFails, Dispatch, PubOK, NewIsUndrawn
<1>2. ASSUME NEW c \in Connections,
             Subscribe(c) \/ Serve(c) \/ HandleMessage(c) \/ Disconnect(c)
      PROVE  NewIsUndrawn'
  BY <1>2 DEF Subscribe, Serve, ReplayQuery, ReplayFails, ReplaySend, Unregister,
       HandleMessage, Disconnect, publishers, NewIsUndrawn
<1>3. CASE Crash \/ UNCHANGED vars
  BY <1>3 DEF Crash, vars, publishers, NewIsUndrawn
<1> QED
  BY <1>1, <1>2, <1>3 DEF Next

LEMMA ServedStep == SessionsOK /\ OpenIsServed /\ [Next]_vars => OpenIsServed'
<1> SUFFICES ASSUME SessionsOK, OpenIsServed, [Next]_vars PROVE OpenIsServed'
  OBVIOUS
<1> USE DEF OpenIsServed, Open, Registered, SessionsOK
<1>1. CASE UNCHANGED <<session, socket>>
  BY <1>1
<1>2. ASSUME NEW e \in Events, Publish(e) PROVE OpenIsServed'
  BY <1>1, <1>2 DEF Publish, Insert, Commit, InsertFails, Dispatch, sessions
<1>3. ASSUME NEW c \in Connections, Subscribe(c) PROVE OpenIsServed'
  BY <1>3 DEF Subscribe
<1>4. ASSUME NEW c \in Connections, Serve(c) PROVE OpenIsServed'
  BY <1>4 DEF Serve, ReplayQuery, ReplayFails, ReplaySend, Unregister
<1>5. ASSUME NEW c \in Connections, HandleMessage(c) \/ Disconnect(c) PROVE OpenIsServed'
  BY <1>1, <1>5 DEF HandleMessage, Disconnect, sessions
<1>6. CASE Crash
  BY <1>6 DEF Crash
<1>7. CASE UNCHANGED vars
  BY <1>1, <1>7 DEF vars, sessions
<1> QED
  BY <1>2, <1>3, <1>4, <1>5, <1>6, <1>7 DEF Next

LEMMA HighestStep ==
  PubOK /\ SentOK /\ PageOK /\ CursorIsHighest /\ [Next]_vars => CursorIsHighest'
<1> SUFFICES ASSUME PubOK, SentOK, PageOK, CursorIsHighest, [Next]_vars PROVE CursorIsHighest'
  OBVIOUS
<1>1. CASE UNCHANGED page
  <2>1. \A e \in Events : handled[e] > 0 => seq'[e] = seq[e]
    BY Grows DEF PageOK
  <2> QED
    BY <1>1, <2>1 DEF CursorIsHighest, page
<1>2. ASSUME NEW c \in Connections, HandleMessage(c) PROVE CursorIsHighest'
  <2> DEFINE m == Head(wire[c])
  <2>0. seq' = seq /\ seq \in [Events -> Nat] /\ handled \in [Events -> Nat] /\ lastSeq \in Nat
    BY <1>2 DEF HandleMessage, publishers, PubOK, PageOK
  <2>1. CASE lastSeq' = 0 /\ handled' = [e \in Events |-> 0]
    BY <2>1 DEF CursorIsHighest
  <2>2. CASE UNCHANGED page
    BY <1>1, <2>2
  <2>3. CASE /\ m \in Events
             /\ lastSeq' = Max({lastSeq, seq[m]})
             /\ handled' = [handled EXCEPT ![m] = @ + 1]
    <3>1. seq[m] \in Nat /\ lastSeq' \in {lastSeq, seq[m]} /\ lastSeq' >= lastSeq /\ lastSeq' >= seq[m]
      BY <2>0, <2>3, HigherSeq
    <3>2. handled'[m] > 0 /\ \A e \in Events : e # m => handled'[e] = handled[e]
      BY <2>0, <2>3
    <3>3. \A e \in Events : handled[e] > 0 => handled'[e] > 0
      BY <3>2
    <3>4. \A e \in Events : handled'[e] > 0 => seq'[e] <= lastSeq'
      BY <2>0, <3>1, <3>2 DEF CursorIsHighest
    <3>5. lastSeq' > 0 => \E e \in Events : handled'[e] > 0 /\ seq'[e] = lastSeq'
      <4>1. CASE lastSeq' = seq[m]
        BY <2>0, <2>3, <3>2, <4>1
      <4>2. CASE lastSeq' = lastSeq
        BY <2>0, <3>3, <4>2 DEF CursorIsHighest
      <4> QED
        BY <3>1, <4>1, <4>2
    <3> QED
      BY <3>4, <3>5 DEF CursorIsHighest
  <2> QED
    BY <1>2, <2>1, <2>2, <2>3 DEF HandleMessage
<1>3. ASSUME NEW e \in Events, Publish(e) PROVE CursorIsHighest'
  BY <1>1, <1>3 DEF Publish, Insert, Commit, InsertFails, Dispatch
<1>4. ASSUME NEW c \in Connections, Serve(c) \/ Subscribe(c) \/ Disconnect(c) PROVE CursorIsHighest'
  BY <1>1, <1>4 DEF Serve, ReplayQuery, ReplayFails, ReplaySend, Unregister, Subscribe, Disconnect
<1>5. CASE Crash \/ UNCHANGED vars
  BY <1>1, <1>5 DEF Crash, vars
<1> QED
  BY <1>2, <1>3, <1>4, <1>5 DEF Next

LEMMA ToldStep == Typed /\ CutOffOK /\ EachToldOnce /\ [Next]_vars => EachToldOnce'
<1> SUFFICES ASSUME Typed, CutOffOK, EachToldOnce, [Next]_vars PROVE EachToldOnce'
  OBVIOUS
<1> DEFINE T == outbox \cup {Truncated}
<1>t. PubOK /\ SessionsOK /\ SentOK /\ Truncated \notin Events
  BY RealtimeAssumption DEF Typed
<1>1. CASE UNCHANGED wire
  BY <1>1 DEF EachToldOnce
<1>2. ASSUME NEW e \in Events, Dispatch(e) PROVE EachToldOnce'
  <2>1. <<e>> \in Seq(T) /\ Truncated \notin ToSet(<<e>>)
    BY <1>2, <1>t DEF Dispatch, PubOK, ToSet
  <2>2. ToldOnce(<<e>>)
    BY <2>1, NotTold
  <2>3. \A c \in Connections : ToldOnce(Sent(c, <<e>>))
    BY <1>t, <2>1, <2>2, ToldOnceSent DEF SentOK, EachToldOnce
  <2>4. \A c \in Connections : wire'[c] = Sent(c, <<e>>) \/ wire'[c] = wire[c]
    BY <1>2 DEF Dispatch
  <2> QED
    BY <2>3, <2>4 DEF EachToldOnce
<1>3. ASSUME NEW c \in Connections, ReplaySend(c) PROVE EachToldOnce'
  <2>1. PICK msgs \in Seq(T) : wire' = [wire EXCEPT ![c] = Sent(c, msgs)] /\ ToldOnce(msgs)
    BY <1>3, <1>t, ReplaySent
  <2>2. Truncated \notin ToSet(wire[c])
    BY <1>3 DEF ReplaySend, CutOffOK
  <2>3. ToldOnce(Sent(c, msgs))
    BY <1>t, <2>1, <2>2, ToldOnceSent DEF SentOK, EachToldOnce
  <2> QED
    BY <1>t, <2>1, <2>3 DEF SentOK, EachToldOnce
<1>4. ASSUME NEW c \in Connections, HandleMessage(c) PROVE EachToldOnce'
  <2>1. wire[c] # << >> /\ wire' = [wire EXCEPT ![c] = Tail(@)]
    BY <1>4 DEF HandleMessage
  <2>2. ToldOnce(Tail(wire[c]))
    BY <1>t, <2>1, ToldOnceAhead DEF SentOK, EachToldOnce
  <2> QED
    BY <1>t, <2>1, <2>2 DEF SentOK, EachToldOnce
<1>5. ToldOnce(<< >>)
  BY DEF ToldOnce
<1>6. ASSUME NEW c \in Connections, Disconnect(c) PROVE EachToldOnce'
  BY <1>5, <1>6, <1>t DEF Disconnect, SentOK, EachToldOnce
<1>7. CASE Crash
  BY <1>5, <1>7 DEF Crash, EachToldOnce
<1>8. ASSUME NEW e \in Events, Insert(e) \/ Commit(e) \/ InsertFails(e) PROVE EachToldOnce'
  BY <1>1, <1>8 DEF Insert, Commit, InsertFails
<1>9. ASSUME NEW c \in Connections, Subscribe(c) \/ ReplayQuery(c) \/ ReplayFails(c) \/ Unregister(c)
      PROVE  EachToldOnce'
  BY <1>1, <1>9 DEF Subscribe, ReplayQuery, ReplayFails, Unregister
<1>10. CASE UNCHANGED vars
  BY <1>1, <1>10 DEF vars
<1> QED
  BY <1>2, <1>3, <1>4, <1>6, <1>7, <1>8, <1>9, <1>10 DEF Next, Publish, Serve

LEMMA AboveStep == Typed /\ RowsAreAbove /\ [Next]_vars => RowsAreAbove'
<1> SUFFICES ASSUME Typed, RowsAreAbove, [Next]_vars,
                    NEW c \in Connections, session'[c] = "sending"
             PROVE  \A e \in ToSet(rows'[c]) : seq'[e] > cursor'[c]
  BY DEF RowsAreAbove
<1>t. PubOK /\ SessionsOK /\ SentOK
  BY DEF Typed
<1>1. ASSUME session[c] = "sending", rows'[c] = rows[c], cursor'[c] = cursor[c]
      PROVE  \A e \in ToSet(rows'[c]) : seq'[e] > cursor'[c]
  <2>1. rows[c] \in Seq(outbox)
    BY <1>t DEF SentOK
  <2>2. \A e \in ToSet(rows[c]) : e \in outbox
    BY <2>1 DEF ToSet
  <2>3. \A e \in ToSet(rows[c]) : seq'[e] = seq[e]
    BY <1>t, <2>2, Grows
  <2> QED
    BY <1>1, <2>3 DEF RowsAreAbove
<1>2. ASSUME NEW d \in Connections, ReplayQuery(d)
      PROVE  \A e \in ToSet(rows'[c]) : seq'[e] > cursor'[c]
  <2> DEFINE S == {e \in outbox : seq[e] > cursor[d]}
  <2>1. PICK above \in InSeqOrder(S) : rows' = [rows EXCEPT ![d] = above]
    BY <1>2 DEF ReplayQuery
  <2>2. ToSet(above) = S
    BY DEF InSeqOrder
  <2>3. UNCHANGED <<seq, cursor>> /\ session' = [session EXCEPT ![d] = "sending"]
    BY <1>2 DEF ReplayQuery, publishers
  <2>4. CASE c = d
    BY <1>t, <2>1, <2>2, <2>3, <2>4 DEF SentOK
  <2>5. CASE c # d
    <3>1. session[c] = "sending" /\ rows'[c] = rows[c]
      BY <1>t, <2>1, <2>3, <2>5 DEF SentOK, SessionsOK
    <3> QED
      BY <1>1, <2>3, <3>1
  <2> QED
    BY <2>4, <2>5
<1>3. ASSUME NEW d \in Connections, ReplaySend(d) \/ ReplayFails(d) \/ Unregister(d) \/ Subscribe(d)
      PROVE  session[c] = "sending" /\ rows'[c] = rows[c] /\ cursor'[c] = cursor[c]
  <2>1. session'[d] # "sending"
    BY <1>3, <1>t DEF ReplaySend, ReplayFails, Unregister, Subscribe, SessionsOK
  <2>2. c # d
    BY <2>1
  <2> QED
    BY <1>3, <1>t, <2>2 DEF ReplaySend, ReplayFails, Unregister, Subscribe, Forget, SessionsOK, SentOK
<1>4. CASE UNCHANGED sessions
  BY <1>1, <1>4 DEF sessions
<1>5. ASSUME NEW e \in Events, Publish(e) PROVE UNCHANGED sessions
  BY <1>5 DEF Publish, Insert, Commit, InsertFails, Dispatch
<1>6. ASSUME NEW d \in Connections, HandleMessage(d) \/ Disconnect(d) PROVE UNCHANGED sessions
  BY <1>6 DEF HandleMessage, Disconnect
<1>7. CASE Crash
  BY <1>7, <1>t DEF Crash, Registered, SessionsOK
<1>8. CASE UNCHANGED vars
  BY <1>4, <1>8 DEF vars
<1> QED
  BY <1>1, <1>2, <1>3, <1>4, <1>5, <1>6, <1>7, <1>8 DEF Next, Serve

LEMMA FeedInvInit == Init => FeedInv
<1> SUFFICES ASSUME Init PROVE FeedInv
  OBVIOUS
<1>1. EachToldOnce
  BY DEF Init, EachToldOnce, ToldOnce
<1>2. OpenIsServed /\ RowsAreAbove
  BY DEF Init, OpenIsServed, Open, RowsAreAbove
<1> QED
  BY <1>1, <1>2 DEF Init, FeedInv, NewIsUndrawn, CursorIsHighest

LEMMA FeedInvStep == Typed /\ CutOffOK /\ FeedInv /\ [Next]_vars => FeedInv'
  BY UndrawnStep, ServedStep, HighestStep, ToldStep, AboveStep DEF FeedInv, Typed

(* What the page is connected to is one session's. *)
ReaderIsSession ==
  \A c \in Connections : SessionsOK /\ SentOK /\ Open(c) =>
    /\ Reader = IF allowed[c] THEN "all" ELSE "some"
    /\ Past = {e \in Events : seq[e] > 0 /\ seq[e] <= cursor[c]}
    /\ CaughtUp <=> whole[c]
    /\ Cut <=> Truncated \in ToSet(wire[c])
    /\ Due = {e \in Events : handled[e] = 0 /\ e \in ToSet(wire[c])}

ReaderIsOff ==
  SentOK /\ (\A c \in Connections : ~Open(c)) =>
    Reader = "off" /\ Past = {} /\ ~CaughtUp /\ ~Cut /\ Due = {}

LEMMA OneSession == ReaderIsSession
<1> SUFFICES ASSUME NEW c \in Connections, SessionsOK, SentOK, Open(c)
             PROVE  /\ Reader = IF allowed[c] THEN "all" ELSE "some"
                    /\ Past = {e \in Events : seq[e] > 0 /\ seq[e] <= cursor[c]}
                    /\ CaughtUp <=> whole[c]
                    /\ Cut <=> Truncated \in ToSet(wire[c])
                    /\ Due = {e \in Events : handled[e] = 0 /\ e \in ToSet(wire[c])}
  BY DEF ReaderIsSession
<1>1. \A d \in Connections : Open(d) <=> d = c
  BY DEF SessionsOK, Open
<1>2. \A d \in Connections : d # c => ToSet(wire[d]) = {}
  BY <1>1 DEF SentOK, Open, ToSet
<1> QED
  BY <1>1, <1>2 DEF Reader, Past, CaughtUp, Cut, Due

LEMMA NoSession == ReaderIsOff
<1> SUFFICES ASSUME SentOK, \A c \in Connections : ~Open(c)
             PROVE  Reader = "off" /\ Past = {} /\ ~CaughtUp /\ ~Cut /\ Due = {}
  BY DEF ReaderIsOff
<1>1. \A c \in Connections : ToSet(wire[c]) = {}
  BY DEF SentOK, Open, ToSet
<1> QED
  BY <1>1 DEF Reader, Past, CaughtUp, Cut, Due

(* A step that leaves sockets, wires and what open sessions know. *)
LEMMA ReaderKept ==
  ASSUME UNCHANGED <<seq, handled, socket, wire>>,
         \A c \in Connections : Open(c) =>
           allowed'[c] = allowed[c] /\ cursor'[c] = cursor[c] /\ whole'[c] = whole[c]
  PROVE  UNCHANGED <<Reader, Past, CaughtUp, Cut, Due>>
<1>1. Reader' = Reader
  BY DEF Reader, Open
<1>2. Past' = Past
  BY DEF Past, Open
<1>3. CaughtUp' = CaughtUp
  BY DEF CaughtUp, Open
<1>4. Cut' = Cut
  BY DEF Cut
<1>5. Due' = Due
  BY DEF Due
<1> QED
  BY <1>1, <1>2, <1>3, <1>4, <1>5

-----------------------------------------------------------------------------
(* The steps of publishers. *)

LEMMA InsertDraws ==
  ASSUME Typed, FeedInv, NEW e \in Events, Insert(e)
  PROVE  Feed!Draw(e)
<1>t. PubOK /\ SessionsOK
  BY DEF Typed
<1>1. /\ pub[e] = "new" /\ pub' = [pub EXCEPT ![e] = "inserting"]
      /\ seq' = [seq EXCEPT ![e] = nextSeq]
      /\ UNCHANGED <<outbox, allowed, cursor, whole, socket, wire, handled>>
  BY DEF Insert, sessions, page
<1>2. seq[e] = 0 /\ e \notin outbox
  BY <1>1, <1>t DEF FeedInv, NewIsUndrawn, PubOK
<1>3. seq'[e] = nextSeq /\ nextSeq \in Nat /\ \A d \in Events : seq[d] < nextSeq
  BY <1>1, <1>t DEF PubOK
<1>4. Announced' = Announced
  BY <1>1, <1>2, <1>t DEF Announced, PubOK
<1>5. Past' = Past
  <2>1. \A c \in Connections : cursor[c] < nextSeq /\ cursor[c] \in Nat
    BY <1>t, <1>3 DEF SessionsOK
  <2>2. \A d \in Events : d # e => seq'[d] = seq[d]
    BY <1>1
  <2>3. e \notin Past /\ e \notin Past'
    BY <1>1, <1>2, <1>3, <2>1 DEF Past
  <2>4. \A d \in Events : d \in Past' <=> d \in Past
    BY <1>1, <2>2, <2>3 DEF Past, Open
  <2> QED
    BY <2>4 DEF Past
<1>6. UNCHANGED <<Reader, CaughtUp, Cut, Due>>
  <2>1. Reader' = Reader
    BY <1>1 DEF Reader, Open
  <2>2. CaughtUp' = CaughtUp
    BY <1>1 DEF CaughtUp, Open
  <2>3. Cut' = Cut
    BY <1>1 DEF Cut
  <2>4. Due' = Due
    BY <1>1 DEF Due
  <2> QED
    BY <2>1, <2>2, <2>3, <2>4
<1> QED
  BY <1>1, <1>2, <1>3, <1>4, <1>5, <1>6 DEF Feed!Draw

LEMMA CommitPublishes ==
  ASSUME Typed, NEW e \in Events, Commit(e)
  PROVE  Feed!Publish(e)
<1>1. /\ pub[e] = "inserting" /\ pub' = [pub EXCEPT ![e] = "committed"]
      /\ outbox' = outbox \cup {e}
      /\ UNCHANGED <<seq, sessions, socket, wire, handled>>
  BY DEF Commit, page
<1>2. seq[e] > 0 /\ e \notin outbox
  BY <1>1 DEF Typed, PubOK
<1>3. Announced' = Announced
  BY <1>1, <1>2 DEF Announced, Typed, PubOK
<1>4. UNCHANGED <<Reader, Past, CaughtUp, Cut, Due>>
  BY <1>1, ReaderKept DEF sessions
<1> QED
  BY <1>1, <1>2, <1>3, <1>4 DEF Feed!Publish

LEMMA FailsUnseen ==
  ASSUME Typed, NEW e \in Events, InsertFails(e)
  PROVE  UNCHANGED Feed!feedVars
<1>1. /\ pub[e] = "inserting" /\ pub' = [pub EXCEPT ![e] = "done"]
      /\ UNCHANGED <<seq, outbox, sessions, socket, wire, handled>>
  BY DEF InsertFails, page
<1>2. e \notin outbox
  BY <1>1 DEF Typed, PubOK
<1>3. Announced' = Announced
  BY <1>1, <1>2 DEF Announced, Typed, PubOK
<1>4. UNCHANGED <<Reader, Past, CaughtUp, Cut, Due>>
  BY <1>1, ReaderKept DEF sessions
<1> QED
  BY <1>1, <1>3, <1>4 DEF Feed!feedVars

LEMMA DispatchAnnounces ==
  ASSUME Typed, Typed', FeedInv, NEW e \in Events, Dispatch(e)
  PROVE  Feed!Announce(e)
<1>t. PubOK /\ SessionsOK /\ SentOK /\ SessionsOK' /\ SentOK'
  BY DEF Typed
<1>1. /\ pub[e] = "committed" /\ pub' = [pub EXCEPT ![e] = "done"]
      /\ wire' = [c \in Connections |->
                    IF Registered(c) /\ e \in Visible(c) THEN Sent(c, <<e>>) ELSE wire[c]]
      /\ UNCHANGED <<seq, outbox, session, allowed, cursor, whole, socket, handled>>
  BY DEF Dispatch, sessions, page
<1>2. e \in outbox \ Announced /\ Announced' = Announced \cup {e}
  BY <1>1, <1>t DEF Announced, PubOK
<1>3. CASE \A c \in Connections : ~Open(c)
  <2>1. Reader = "off" /\ Past = {} /\ ~CaughtUp /\ ~Cut /\ Due = {}
    BY <1>3, <1>t, NoSession DEF ReaderIsOff
  <2>2. ReaderIsOff'
    BY NoSession, PTL
  <2>3. Reader' = "off" /\ Past' = {} /\ ~CaughtUp' /\ ~Cut' /\ Due' = {}
    BY <1>1, <1>3, <1>t, <2>2 DEF ReaderIsOff, Open
  <2>4. CaughtUp' = CaughtUp /\ Cut' = Cut
    BY <2>1, <2>3 DEF CaughtUp, Cut
  <2>5. ~Feed!MaySee(e)
    BY <2>1 DEF Feed!MaySee
  <2> QED
    BY <1>1, <1>2, <2>1, <2>3, <2>4, <2>5 DEF Feed!Announce
<1>4. ASSUME NEW c \in Connections, Open(c) PROVE Feed!Announce(e)
  <2>1. /\ Reader = IF allowed[c] THEN "all" ELSE "some"
        /\ Cut <=> Truncated \in ToSet(wire[c])
        /\ Due = {d \in Events : handled[d] = 0 /\ d \in ToSet(wire[c])}
    BY <1>4, <1>t, OneSession DEF ReaderIsSession
  <2>2. ReaderIsSession'
    BY OneSession, PTL
  <2>3. Open(c)'
    BY <1>1, <1>4 DEF Open
  <2>4. /\ Cut' <=> Truncated \in ToSet(wire'[c])
        /\ Due' = {d \in Events : handled'[d] = 0 /\ d \in ToSet(wire'[c])}
    BY <1>t, <2>2, <2>3 DEF ReaderIsSession
  <2>5. Feed!MaySee(e) <=> e \in Visible(c)
    BY <2>1 DEF Feed!MaySee, Visible
  <2>6. /\ <<e>> \in Seq(outbox \cup {Truncated}) /\ ToSet(<<e>>) = {e} /\ e # Truncated
    BY <1>2, RealtimeAssumption DEF ToSet
  <2>7. ToSet(Sent(c, <<e>>)) = ToSet(wire[c]) \cup {e}
    BY <1>4, <1>t, <2>6, SentTo DEF SentOK, Open
  <2>8. ToSet(wire'[c]) = ToSet(wire[c]) \cup {d \in {e} : Feed!MaySee(d)}
    BY <1>1, <1>4, <2>5, <2>7 DEF FeedInv, OpenIsServed
  <2>9. Due' = Due \cup {d \in {e} : Feed!MaySee(d) /\ handled[d] = 0}
    BY <1>1, <2>1, <2>4, <2>8
  <2>10. Cut' = Cut
    BY <2>1, <2>4, <2>6, <2>8 DEF Cut
  <2>11. Reader' = Reader /\ Past' = Past /\ CaughtUp' = CaughtUp
    BY <1>1 DEF Reader, Past, CaughtUp, Open
  <2> QED
    BY <1>1, <1>2, <2>9, <2>10, <2>11 DEF Feed!Announce
<1> QED
  BY <1>3, <1>4

-----------------------------------------------------------------------------
(* The steps of sessions and of the page. *)

LEMMA SubscribeOpens ==
  ASSUME Typed, Typed', FeedInv, NEW c \in Connections, Subscribe(c)
  PROVE  Feed!Open
<1>t. PubOK /\ SessionsOK /\ SentOK /\ PageOK /\ SessionsOK' /\ SentOK'
  BY DEF Typed
<1>1. /\ socket[c] = "none" /\ \A d \in Connections : ~Open(d)
      /\ socket' = [socket EXCEPT ![c] = "open"] /\ cursor' = [cursor EXCEPT ![c] = lastSeq]
      /\ UNCHANGED <<pub, seq, outbox, whole, wire, handled>>
  BY DEF Subscribe, Open, publishers, page
<1>2. Reader = "off" /\ ~CaughtUp
  BY <1>1, <1>t, NoSession DEF ReaderIsOff
<1>3. Open(c)' /\ ~whole[c] /\ cursor'[c] = lastSeq
  BY <1>1, <1>t DEF Open, SessionsOK
<1>4. ReaderIsSession'
  BY OneSession, PTL
<1>5. /\ Reader' \in {"all", "some"}
      /\ Past' = {e \in Events : seq'[e] > 0 /\ seq'[e] <= cursor'[c]}
      /\ CaughtUp' <=> whole'[c]
  BY <1>3, <1>4, <1>t DEF ReaderIsSession
<1>6. CaughtUp' = CaughtUp
  BY <1>1, <1>2, <1>3, <1>5 DEF CaughtUp
<1>7. Past' = {e \in Events : seq[e] > 0 /\ \E d \in Events : handled[d] > 0 /\ seq[e] <= seq[d]}
  <2>1. seq \in [Events -> Nat] /\ lastSeq \in Nat
    BY <1>t DEF PubOK, PageOK
  <2>2. ASSUME NEW e \in Events, seq[e] > 0
        PROVE  seq[e] <= lastSeq <=> \E d \in Events : handled[d] > 0 /\ seq[e] <= seq[d]
    <3>1. ASSUME seq[e] <= lastSeq PROVE \E d \in Events : handled[d] > 0 /\ seq[e] <= seq[d]
      <4>1. PICK d \in Events : handled[d] > 0 /\ seq[d] = lastSeq
        BY <2>1, <2>2, <3>1 DEF FeedInv, CursorIsHighest
      <4> QED
        BY <3>1, <4>1
    <3>2. ASSUME NEW d \in Events, handled[d] > 0, seq[e] <= seq[d] PROVE seq[e] <= lastSeq
      <4>1. seq[d] <= lastSeq
        BY <3>2 DEF FeedInv, CursorIsHighest
      <4> QED
        BY <2>1, <3>2, <4>1
    <3> QED
      BY <3>1, <3>2
  <2> QED
    BY <1>1, <1>3, <1>5, <2>2
<1>8. Announced' = Announced /\ Cut' = Cut /\ Due' = Due
  BY <1>1 DEF Announced, Cut, Due
<1> QED
  BY <1>1, <1>2, <1>5, <1>6, <1>7, <1>8 DEF Feed!Open, Feed!feed

LEMMA ServeUnseen ==
  ASSUME Typed, NEW c \in Connections, ReplayQuery(c) \/ ReplayFails(c) \/ Unregister(c)
  PROVE  UNCHANGED Feed!feedVars
<1>t. SessionsOK
  BY DEF Typed
<1>1. UNCHANGED <<pub, seq, outbox, socket, wire, handled>>
  BY DEF ReplayQuery, ReplayFails, Unregister, publishers, page
<1>2. ASSUME NEW d \in Connections, Open(d)
      PROVE  allowed'[d] = allowed[d] /\ cursor'[d] = cursor[d] /\ whole'[d] = whole[d]
  <2>1. CASE ReplayQuery(c) \/ ReplayFails(c)
    BY <2>1 DEF ReplayQuery, ReplayFails
  <2>2. CASE Unregister(c)
    <3>1. d # c /\ Forget({c})
      BY <1>2, <2>2 DEF Unregister, Open
    <3> QED
      BY <1>t, <3>1 DEF Forget, SessionsOK
  <2> QED
    BY <2>1, <2>2
<1>3. UNCHANGED <<Reader, Past, CaughtUp, Cut, Due>>
  BY <1>1, <1>2, ReaderKept
<1>4. Announced' = Announced
  BY <1>1 DEF Announced
<1> QED
  BY <1>1, <1>3, <1>4 DEF Feed!feedVars

(* A replay brings what was missed, in part if it is truncated. *)
LEMMA ReplayCatchesUp ==
  ASSUME Typed, Typed', CutOffOK, OwedOK, FeedInv, NEW c \in Connections, ReplaySend(c)
  PROVE  Feed!CatchUp \/ Feed!CatchUpInPart \/ UNCHANGED Feed!feedVars
<1>t. PubOK /\ SessionsOK /\ SentOK /\ PageOK /\ SessionsOK' /\ SentOK'
  BY DEF Typed
<1>1. PICK msgs \in Seq(outbox \cup {Truncated}) :
         /\ wire' = [wire EXCEPT ![c] = Sent(c, msgs)]
         /\ ToSet(msgs) \subseteq (ToSet(rows[c]) \cap Visible(c)) \cup {Truncated}
         /\ whole'[c] => ToSet(rows[c]) \cap Visible(c) \subseteq ToSet(msgs)
         /\ whole'[c] <=> Truncated \notin ToSet(msgs)
  BY <1>t, ReplaySent
<1>2. /\ session[c] = "sending"
      /\ UNCHANGED <<pub, seq, outbox, allowed, cursor, socket, handled>>
      /\ \A d \in Connections : d # c => whole'[d] = whole[d]
  BY <1>t DEF ReplaySend, publishers, page, SessionsOK
<1>3. Announced' = Announced
  BY <1>2 DEF Announced
<1>4. CASE ~Open(c)
  <2>1. Sent(c, msgs) = wire[c]
    BY <1>4 DEF Sent, Open
  <2>2. wire' = wire
    BY <1>1, <1>t, <2>1 DEF SentOK
  <2>3. UNCHANGED <<Reader, Past, CaughtUp, Cut, Due>>
    BY <1>2, <1>4, <2>2, ReaderKept
  <2> QED
    BY <1>2, <1>3, <2>3 DEF Feed!feedVars
<1>5. CASE Open(c)
  <2> DEFINE S == {e \in Events : handled[e] = 0 /\ e \in ToSet(msgs)}
  <2>1. /\ Reader = IF allowed[c] THEN "all" ELSE "some"
        /\ Past = {e \in Events : seq[e] > 0 /\ seq[e] <= cursor[c]}
        /\ CaughtUp <=> whole[c]
        /\ Cut <=> Truncated \in ToSet(wire[c])
        /\ Due = {e \in Events : handled[e] = 0 /\ e \in ToSet(wire[c])}
    BY <1>5, <1>t, OneSession DEF ReaderIsSession
  <2>2. ReaderIsSession'
    BY OneSession, PTL
  <2>3. Open(c)'
    BY <1>2, <1>5 DEF Open
  <2>4. /\ CaughtUp' <=> whole'[c]
        /\ Cut' <=> Truncated \in ToSet(wire'[c])
        /\ Due' = {e \in Events : handled'[e] = 0 /\ e \in ToSet(wire'[c])}
    BY <1>t, <2>2, <2>3 DEF ReaderIsSession
  <2>5. Reader' = Reader /\ Past' = Past
    BY <1>2 DEF Reader, Past, Open
  <2>6. ToSet(wire'[c]) = ToSet(wire[c]) \cup ToSet(msgs)
    <3>1. wire[c] \in Seq(outbox \cup {Truncated})
      BY <1>t DEF SentOK
    <3>2. ToSet(Sent(c, msgs)) = ToSet(wire[c]) \cup ToSet(msgs)
      BY <1>5, <1>t, <3>1, SentTo DEF SentOK, Open
    <3> QED
      BY <1>1, <1>t, <3>2 DEF SentOK
  <2>7. ~CaughtUp /\ ~Cut /\ Reader # "off"
    BY <1>2, <1>t, <2>1 DEF SessionsOK, CutOffOK
  <2>8. \A e \in Events : Feed!MaySee(e) <=> e \in Visible(c)
    BY <2>1 DEF Feed!MaySee, Visible
  <2>9. Due' = Due \cup S
    BY <1>2, <2>1, <2>4, <2>6
  <2>10. S \in SUBSET Feed!Missed
    <3> SUFFICES ASSUME NEW e \in Events, handled[e] = 0, e \in ToSet(msgs)
                 PROVE  e \in outbox \ Past /\ Feed!MaySee(e)
      BY DEF Feed!Missed
    <3>1. e \in ToSet(rows[c]) /\ e \in Visible(c)
      BY <1>1, RealtimeAssumption
    <3>2. e \in outbox
      <4>1. rows[c] \in Seq(outbox)
        BY <1>t DEF SentOK
      <4> QED
        BY <3>1, <4>1 DEF ToSet
    <3>3. seq[e] > cursor[c] /\ seq[e] \in Nat /\ cursor[c] \in Nat
      BY <1>2, <1>t, <3>1 DEF FeedInv, RowsAreAbove, PubOK, SessionsOK
    <3> QED
      BY <2>1, <2>8, <3>1, <3>2, <3>3
  <2>11. CASE whole'[c]
    <3>1. CaughtUp' = TRUE /\ Cut' = Cut
      BY <1>1, <2>1, <2>4, <2>6, <2>11 DEF CaughtUp, Cut
    <3>2. ASSUME NEW e \in Announced, e \in Feed!Missed PROVE e \in Due'
      <4>1. /\ e \in outbox /\ e \in Events /\ pub[e] = "done" /\ e \notin Past
            /\ e \in Visible(c) /\ handled[e] = 0
        BY <1>t, <2>8, <3>2 DEF Announced, Feed!Missed, PubOK
      <4>2. Owed(c, e)
        <5>1. seq[e] > 0 /\ seq[e] \in Nat /\ cursor[c] \in Nat
          BY <1>t, <4>1 DEF PubOK, SessionsOK
        <5> QED
          BY <1>5, <2>1, <4>1, <5>1 DEF Owed, Open
      <4>3. e \in ToSet(wire[c]) \/ e \in ToSet(rows[c])
        BY <1>2, <4>1, <4>2 DEF OwedOK, Held
      <4> QED
        BY <1>1, <1>2, <2>4, <2>6, <2>11, <4>1, <4>3
    <3> QED
      BY <1>2, <1>3, <2>5, <2>7, <2>9, <2>10, <3>1, <3>2 DEF Feed!CatchUp, Feed!feed
  <2>12. CASE ~whole'[c]
    <3>1. Cut' = TRUE /\ CaughtUp' = CaughtUp
      BY <1>1, <2>4, <2>6, <2>7, <2>12 DEF CaughtUp, Cut
    <3> QED
      BY <1>2, <1>3, <2>5, <2>7, <2>9, <2>10, <3>1 DEF Feed!CatchUpInPart, Feed!feed
  <2> QED
    BY <2>11, <2>12
<1> QED
  BY <1>4, <1>5

LEMMA MessageIsHandled ==
  ASSUME Typed, Typed', FeedInv, NEW c \in Connections, HandleMessage(c)
  PROVE  Feed!StartCold \/ (\E e \in Events : Feed!Handle(e)) \/ UNCHANGED Feed!feedVars
<1> DEFINE m == Head(wire[c])
<1>t. PubOK /\ SessionsOK /\ SentOK /\ PageOK /\ SessionsOK' /\ SentOK' /\ Truncated \notin Events
  BY RealtimeAssumption DEF Typed
<1>1. /\ wire[c] # << >> /\ wire' = [wire EXCEPT ![c] = Tail(@)]
      /\ UNCHANGED <<pub, seq, outbox, allowed, cursor, whole, socket>>
  BY DEF HandleMessage, publishers, sessions
<1>2. Open(c) /\ Open(c)'
  BY <1>1, <1>t DEF SentOK, Open
<1>3. /\ Cut <=> Truncated \in ToSet(wire[c])
      /\ Due = {e \in Events : handled[e] = 0 /\ e \in ToSet(wire[c])}
  BY <1>2, <1>t, OneSession DEF ReaderIsSession
<1>4. ReaderIsSession'
  BY OneSession, PTL
<1>5. wire'[c] = Tail(wire[c])
  BY <1>1, <1>t DEF SentOK
<1>6. /\ Cut' <=> Truncated \in ToSet(Tail(wire[c]))
      /\ Due' = {e \in Events : handled'[e] = 0 /\ e \in ToSet(Tail(wire[c]))}
  BY <1>2, <1>4, <1>5, <1>t DEF ReaderIsSession
<1>7. /\ m \in ToSet(wire[c]) /\ ToSet(Tail(wire[c])) \subseteq ToSet(wire[c])
      /\ ToSet(wire[c]) \subseteq ToSet(Tail(wire[c])) \cup {m}
  BY <1>1, <1>t, Consumed DEF SentOK
<1>8. Reader' = Reader /\ Past' = Past /\ CaughtUp' = CaughtUp /\ Announced' = Announced
  BY <1>1 DEF Reader, Past, CaughtUp, Announced, Open
<1>9. CASE m = Truncated /\ handled' = [e \in Events |-> 0]
  <2> DEFINE S == {e \in Events : handled[e] > 0 /\ e \in ToSet(wire[c])}
  <2>1. Truncated \notin ToSet(Tail(wire[c]))
    BY <1>1, <1>9, <1>t, ToldOnceAhead DEF SentOK, FeedInv, EachToldOnce
  <2>2. Cut /\ Cut' = FALSE
    BY <1>3, <1>6, <1>7, <1>9, <2>1 DEF Cut
  <2>3. \A e \in Events : handled[e] = 0 \/ handled[e] > 0
    BY <1>t DEF PageOK
  <2>4. Due' = Due \cup S
    BY <1>3, <1>6, <1>7, <1>9, <1>t, <2>3
  <2>5. S \in SUBSET {e \in Events : handled[e] > 0}
    OBVIOUS
  <2> QED
    BY <1>1, <1>8, <1>9, <2>2, <2>4, <2>5 DEF Feed!StartCold, Feed!feed
<1>10. ASSUME m # Truncated PROVE Cut' = Cut
  BY <1>3, <1>6, <1>7, <1>10 DEF Cut
<1>11. CASE m \in seen /\ UNCHANGED page
  <2>1. m \in Events /\ m # Truncated /\ handled[m] > 0 /\ handled' = handled
    BY <1>11, <1>t DEF PageOK, PubOK, page
  <2>2. Due' = Due
    BY <1>3, <1>6, <1>7, <2>1
  <2> QED
    BY <1>1, <1>8, <1>10, <2>1, <2>2 DEF Feed!feedVars
<1>12. CASE m \in Events \ seen /\ handled' = [handled EXCEPT ![m] = @ + 1]
  <2>1. handled[m] = 0 /\ m # Truncated
    BY <1>12, <1>t DEF PageOK
  <2>2. handled' = [handled EXCEPT ![m] = 1]
    BY <1>12, <2>1
  <2>3. \A e \in Events : handled'[e] = IF e = m THEN 1 ELSE handled[e]
    BY <1>12, <1>t, <2>2 DEF PageOK
  <2>4. m \in Due /\ Due' = Due \ {m}
    BY <1>3, <1>6, <1>7, <1>12, <2>1, <2>3
  <2> QED
    BY <1>1, <1>8, <1>10, <1>12, <2>1, <2>2, <2>4 DEF Feed!Handle, Feed!feed
<1> QED
  BY <1>9, <1>11, <1>12 DEF HandleMessage

(* A lost socket, and a restart, leave nobody connected. *)
LEMMA EndsClosed ==
  ASSUME Typed', \A c \in Connections : ~Open(c)', UNCHANGED <<seq, outbox, handled>>
  PROVE  Feed!Closed
<1>1. ReaderIsOff'
  BY NoSession, PTL
<1>2. Reader' = "off" /\ Past' = {} /\ ~CaughtUp' /\ ~Cut' /\ Due' = {}
  BY <1>1 DEF ReaderIsOff, Typed
<1>3. CaughtUp' = FALSE /\ Cut' = FALSE
  BY <1>2 DEF CaughtUp, Cut
<1> QED
  BY <1>2, <1>3 DEF Feed!Closed

LEMMA DisconnectCloses ==
  ASSUME Typed, Typed', NEW c \in Connections, Disconnect(c)
  PROVE  Feed!Close
<1>t. SessionsOK /\ SentOK
  BY DEF Typed
<1>1. /\ Open(c) /\ socket' = [socket EXCEPT ![c] = "closed"]
      /\ UNCHANGED <<pub, seq, outbox, handled>>
  BY DEF Disconnect, Open, publishers, page
<1>2. Reader # "off"
  BY <1>1, <1>t, OneSession DEF ReaderIsSession
<1>3. \A d \in Connections : ~Open(d)'
  BY <1>1, <1>t DEF Open, SessionsOK
<1>4. Feed!Closed
  BY <1>1, <1>3, EndsClosed
<1>5. Announced' = Announced
  BY <1>1 DEF Announced
<1> QED
  BY <1>2, <1>4, <1>5 DEF Feed!Close

LEMMA CrashRestarts ==
  ASSUME Typed, Typed', Crash
  PROVE  Feed!Restart
<1>1. \A c \in Connections : ~Open(c)'
  BY DEF Crash, Open
<1>2. UNCHANGED <<seq, outbox, handled>>
  BY DEF Crash, page
<1>3. Feed!Closed
  BY <1>1, <1>2, EndsClosed
<1>4. Announced' = outbox
  BY DEF Crash, Announced, Typed, PubOK
<1> QED
  BY <1>3, <1>4 DEF Feed!Restart

LEMMA FeedStep ==
  Typed /\ Typed' /\ CutOffOK /\ OwedOK /\ FeedInv /\ [Next]_vars => [Feed!FeedNext]_(Feed!feedVars)
<1> SUFFICES ASSUME Typed, Typed', CutOffOK, OwedOK, FeedInv, [Next]_vars
             PROVE  Feed!FeedNext \/ UNCHANGED Feed!feedVars
  OBVIOUS
<1>1. ASSUME NEW e \in Events, Publish(e) PROVE Feed!FeedNext \/ UNCHANGED Feed!feedVars
  BY <1>1, InsertDraws, CommitPublishes, FailsUnseen, DispatchAnnounces DEF Publish, Feed!FeedNext
<1>2. ASSUME NEW c \in Connections, Subscribe(c) \/ Disconnect(c) PROVE Feed!FeedNext
  BY <1>2, SubscribeOpens, DisconnectCloses DEF Feed!FeedNext
<1>3. ASSUME NEW c \in Connections, Serve(c) PROVE Feed!FeedNext \/ UNCHANGED Feed!feedVars
  BY <1>3, ServeUnseen, ReplayCatchesUp DEF Serve, Feed!FeedNext
<1>4. ASSUME NEW c \in Connections, HandleMessage(c)
      PROVE  Feed!FeedNext \/ UNCHANGED Feed!feedVars
  BY <1>4, MessageIsHandled DEF Feed!FeedNext
<1>5. CASE Crash
  BY <1>5, CrashRestarts DEF Feed!FeedNext
<1>6. CASE UNCHANGED vars
  BY <1>6 DEF vars, publishers, sessions, page, Feed!feedVars, Announced, Reader, Past,
       CaughtUp, Cut, Due, Open
<1> QED
  BY <1>1, <1>2, <1>3, <1>4, <1>5, <1>6 DEF Next

(* Over any number of connections, whatever is truncated, lost or begun     *)
(* anew, the page gets the events by the plain rules of EventFeed.          *)
THEOREM PageIsFed == Spec => ImplementsFeed
<1>1. Init => Feed!FeedInit
  <2> SUFFICES ASSUME Init PROVE Feed!FeedInit
    OBVIOUS
  <2>1. SentOK /\ \A c \in Connections : ~Open(c)
    BY TypedInit DEF Init, Open, Typed
  <2>2. Reader = "off" /\ Past = {} /\ ~CaughtUp /\ ~Cut /\ Due = {}
    BY <2>1, NoSession DEF ReaderIsOff
  <2>3. CaughtUp = FALSE /\ Cut = FALSE
    BY <2>2 DEF CaughtUp, Cut
  <2>4. Announced = {}
    BY DEF Init, Announced
  <2> QED
    BY <2>2, <2>3, <2>4 DEF Init, Feed!FeedInit
<1> QED
  BY <1>1, TypedInit, OwedInit, FeedInvInit, TypedStep, CutOffStep, OwedStep, FeedInvStep,
     FeedStep, PTL
     DEF Spec, ImplementsFeed, Feed!FeedSpec
=============================================================================
