------------------------------ MODULE Realtime ------------------------------
(***************************************************************************)
(* Realtime events of one user: the outbox (realtime/publish.ts), the      *)
(* WebSocket sessions with live delivery and replay (subscribe.ts,         *)
(* session-manager.ts) and one browser page with its resume cursor and its *)
(* deduplication (frontend/src/composables/useRealtime.ts).                *)
(*                                                                         *)
(* Each event is published by a task of its own.  Its row gets its seq     *)
(* when the INSERT runs and is visible when it commits; only then, in a    *)
(* later turn, the task sends the event to the sessions.  The replay of a  *)
(* session is a query and, in a later turn, a loop of sends.               *)
(*                                                                         *)
(* The page opens one socket after the other.  Rows are young: retention   *)
(* (seven days) removes nothing here.                                      *)
(***************************************************************************)
EXTENDS Naturals, Sequences, FiniteSets, SequencesExt, FiniteSetsExt

CONSTANTS Events,        \* the events published for the user
          Restricted,    \* those of a channel a session may not be allowed
          Connections,   \* the sockets the page opens
          ReplayLimit,   \* REPLAY_LIMIT
          Truncated      \* the message system/resume.truncated

ASSUME RealtimeAssumption ==
    /\ Restricted \subseteq Events
    /\ ReplayLimit \in Nat
    /\ Truncated \notin Events

VARIABLES pub,        \* where the publisher of each event stands
          nextSeq,    \* the sequence of realtime_events.seq
          seq,        \* the seq of each event, 0 before its INSERT
          outbox,     \* the committed rows
          session,    \* the server's view of each connection
          allowed,    \* whether a session is allowed every channel
          cursor,     \* lastEventId of the handshake, 0 for none
          rows,       \* what the replay query of a session returned
          whole,      \* history: the replay went through, and untruncated
          socket,     \* the page's view of each connection
          wire,       \* what was sent to the page and has not arrived
          lastSeq, seen,   \* RealtimeBus
          handled     \* history: how often each event reached the handlers
                      \* since the page last started cold

publishers == <<pub, nextSeq, seq, outbox>>
sessions == <<session, allowed, cursor, rows, whole>>
page == <<lastSeq, seen, handled>>
vars == <<publishers, sessions, socket, wire, page>>

(* Mutant of Registered: the session is registered after the replay. *)
RegisteredAfterReplay(c) == session[c] = "live"

(* Mutant of Visible: a channel's permission is not asked for. *)
VisibleToAll(c) == Events

Visible(c) == IF allowed[c] THEN Events ELSE Events \ Restricted
Registered(c) == session[c] \in {"replaying", "sending", "live"}

Init ==
    /\ pub = [e \in Events |-> "new"] /\ nextSeq = 1
    /\ seq = [e \in Events |-> 0] /\ outbox = {}
    /\ session = [c \in Connections |-> "none"]
    /\ allowed = [c \in Connections |-> FALSE]
    /\ cursor = [c \in Connections |-> 0]
    /\ rows = [c \in Connections |-> <<>>]
    /\ whole = [c \in Connections |-> FALSE]
    /\ socket = [c \in Connections |-> "none"]
    /\ wire = [c \in Connections |-> <<>>]
    /\ lastSeq = 0 /\ seen = {} /\ handled = [e \in Events |-> 0]

-----------------------------------------------------------------------------
(* publish.ts *)

Insert(e) ==
    /\ pub[e] = "new"
    /\ pub' = [pub EXCEPT ![e] = "inserting"]
    /\ seq' = [seq EXCEPT ![e] = nextSeq]
    /\ nextSeq' = nextSeq + 1
    /\ UNCHANGED <<outbox, sessions, socket, wire, page>>

Commit(e) ==
    /\ pub[e] = "inserting"
    /\ pub' = [pub EXCEPT ![e] = "committed"]
    /\ outbox' = outbox \cup {e}
    /\ UNCHANGED <<nextSeq, seq, sessions, socket, wire, page>>

InsertFails(e) ==
    /\ pub[e] = "inserting"
    /\ pub' = [pub EXCEPT ![e] = "done"]
    /\ UNCHANGED <<nextSeq, seq, outbox, sessions, socket, wire, page>>

(* What is sent on a socket the page has lost arrives nowhere. *)
Sent(c, msgs) == IF socket[c] = "open" THEN wire[c] \o msgs ELSE wire[c]

(* To every session of the user that may see the event's channel. *)
Dispatch(e) ==
    /\ pub[e] = "committed"
    /\ pub' = [pub EXCEPT ![e] = "done"]
    /\ wire' = [c \in Connections |->
                   IF Registered(c) /\ e \in Visible(c) THEN Sent(c, <<e>>) ELSE wire[c]]
    /\ UNCHANGED <<nextSeq, seq, outbox, sessions, socket, page>>

-----------------------------------------------------------------------------
(* subscribe.ts *)

(* The page connects, with its cursor if it has one, and the session is    *)
(* registered before the replay is read.                                   *)
Subscribe(c) ==
    /\ socket[c] = "none" /\ \A d \in Connections : socket[d] # "open"
    /\ socket' = [socket EXCEPT ![c] = "open"]
    /\ session' = [session EXCEPT ![c] = IF lastSeq > 0 THEN "replaying" ELSE "live"]
    /\ cursor' = [cursor EXCEPT ![c] = lastSeq]
    /\ \E all \in BOOLEAN : allowed' = [allowed EXCEPT ![c] = all]
    /\ UNCHANGED <<publishers, rows, whole, wire, page>>

(* The sequence of the events of S in the order of their seq. *)
InSeqOrder(S) ==
    {s \in [1 .. Cardinality(S) -> S] :
        ToSet(s) = S /\ \A i, j \in DOMAIN s : i < j => seq[s[i]] < seq[s[j]]}

(* Mutant of ReplayQuery: the cursor names the first row still wanted, and *)
(* the page has sent the last one it had.                                  *)
QueryOffByOne(c) ==
    /\ session[c] = "replaying"
    /\ session' = [session EXCEPT ![c] = "sending"]
    /\ \E above \in InSeqOrder({e \in outbox : seq[e] > cursor[c] + 1}) :
          rows' = [rows EXCEPT ![c] = above]
    /\ UNCHANGED <<publishers, allowed, cursor, whole, socket, wire, page>>

(* The rows above the cursor in the order of their seq. *)
ReplayQuery(c) ==
    /\ session[c] = "replaying"
    /\ session' = [session EXCEPT ![c] = "sending"]
    /\ \E above \in InSeqOrder({e \in outbox : seq[e] > cursor[c]}) :
          rows' = [rows EXCEPT ![c] = above]
    /\ UNCHANGED <<publishers, allowed, cursor, whole, socket, wire, page>>

(* The query fails: a warning, and the session goes on without. *)
ReplayFails(c) ==
    /\ session[c] = "replaying"
    /\ session' = [session EXCEPT ![c] = "live"]
    /\ UNCHANGED <<publishers, allowed, cursor, rows, whole, socket, wire, page>>

(* The first ReplayLimit rows are sent, without those of channels this     *)
(* session may not see; a longer replay is marked as truncated.            *)
ReplaySend(c) ==
    LET truncated == Len(rows[c]) > ReplayLimit
        toSend == IF truncated THEN SubSeq(rows[c], 1, ReplayLimit) ELSE rows[c]
    IN  /\ session[c] = "sending"
        /\ session' = [session EXCEPT ![c] = "live"]
        /\ whole' = [whole EXCEPT ![c] = ~truncated]
        /\ \E visible \in InSeqOrder(ToSet(toSend) \cap Visible(c)) :
              wire' = [wire EXCEPT ![c] =
                          Sent(c, IF truncated THEN Append(visible, Truncated) ELSE visible)]
        /\ rows' = [rows EXCEPT ![c] = <<>>]
        /\ UNCHANGED <<publishers, allowed, cursor, socket, page>>

(* What a handler knew of its session ends with it. *)
Forget(C) ==
    /\ allowed' = [c \in Connections |-> allowed[c] /\ c \notin C]
    /\ cursor' = [c \in Connections |-> IF c \in C THEN 0 ELSE cursor[c]]
    /\ whole' = [c \in Connections |-> whole[c] /\ c \notin C]

(* Mutant of Unregister: the failed replay leaves the handler early. *)
UnregisterIfReplayed(c) ==
    /\ session[c] = "live" /\ socket[c] = "closed"
    /\ whole[c] \/ cursor[c] = 0
    /\ session' = [session EXCEPT ![c] = "gone"]
    /\ Forget({c})
    /\ UNCHANGED <<publishers, rows, socket, wire, page>>

(* A send, the heartbeat's at the latest, finds the socket closed: the     *)
(* handler is released and unregisters the session.  During the replay it  *)
(* is not waiting yet.                                                     *)
Unregister(c) ==
    /\ session[c] = "live" /\ socket[c] = "closed"
    /\ session' = [session EXCEPT ![c] = "gone"]
    /\ Forget({c})
    /\ UNCHANGED <<publishers, rows, socket, wire, page>>

-----------------------------------------------------------------------------
(* useRealtime.ts *)

(* Mutant of HandleMessage: ids are not compared. *)
HandleTwice(c) ==
    /\ wire[c] # <<>>
    /\ wire' = [wire EXCEPT ![c] = Tail(@)]
    /\ LET m == Head(wire[c]) IN
       \/ /\ m = Truncated
          /\ lastSeq' = 0 /\ seen' = {} /\ handled' = [e \in Events |-> 0]
       \/ /\ m \in Events
          /\ seen' = seen \cup {m}
          /\ lastSeq' = Max({lastSeq, seq[m]})
          /\ handled' = [handled EXCEPT ![m] = @ + 1]
    /\ UNCHANGED <<publishers, sessions, socket>>

(* A message arrives: a known id is dropped; a truncated replay clears the *)
(* cursor and the known ids, a cold start; a higher seq moves the cursor.  *)
HandleMessage(c) ==
    /\ wire[c] # <<>>
    /\ wire' = [wire EXCEPT ![c] = Tail(@)]
    /\ LET m == Head(wire[c]) IN
       \/ /\ m = Truncated
          /\ lastSeq' = 0 /\ seen' = {} /\ handled' = [e \in Events |-> 0]
       \/ /\ m \in seen
          /\ UNCHANGED page
       \/ /\ m \in Events \ seen
          /\ seen' = seen \cup {m}
          /\ lastSeq' = Max({lastSeq, seq[m]})
          /\ handled' = [handled EXCEPT ![m] = @ + 1]
    /\ UNCHANGED <<publishers, sessions, socket>>

(* The connection is lost, or the page's watchdog closes it. *)
Disconnect(c) ==
    /\ socket[c] = "open"
    /\ socket' = [socket EXCEPT ![c] = "closed"]
    /\ wire' = [wire EXCEPT ![c] = <<>>]
    /\ UNCHANGED <<publishers, sessions, page>>

-----------------------------------------------------------------------------
(* The server dies: its sessions and its publishers are gone. *)
Crash ==
    /\ pub' = [e \in Events |-> IF pub[e] = "new" THEN "new" ELSE "done"]
    /\ session' = [c \in Connections |-> IF Registered(c) THEN "gone" ELSE session[c]]
    /\ socket' = [c \in Connections |-> IF socket[c] = "open" THEN "closed" ELSE socket[c]]
    /\ wire' = [c \in Connections |-> <<>>]
    /\ rows' = [c \in Connections |-> <<>>]
    /\ Forget(Connections)
    /\ UNCHANGED <<nextSeq, seq, outbox, page>>

-----------------------------------------------------------------------------
Publish(e) == Insert(e) \/ Commit(e) \/ InsertFails(e) \/ Dispatch(e)

Serve(c) == ReplayQuery(c) \/ ReplayFails(c) \/ ReplaySend(c) \/ Unregister(c)

Next ==
    \/ \E e \in Events : Publish(e)
    \/ \E c \in Connections : Subscribe(c) \/ Serve(c) \/ HandleMessage(c) \/ Disconnect(c)
    \/ Crash

Spec == Init /\ [][Next]_vars

(* What the server has begun it goes on with, and what is on the wire of   *)
(* an open connection arrives.  No event, no connection and no loss of one *)
(* is promised.                                                            *)
Fairness ==
    /\ \A e \in Events : WF_vars(pub[e] # "new" /\ Publish(e))
    /\ \A c \in Connections : WF_vars(Serve(c)) /\ WF_vars(HandleMessage(c))

FairSpec == Spec /\ Fairness

-----------------------------------------------------------------------------
Messages == Events \cup {Truncated}

TypeOK ==
    /\ pub \in [Events -> {"new", "inserting", "committed", "done"}]
    /\ nextSeq \in Nat \ {0} /\ seq \in [Events -> 0 .. nextSeq - 1]
    /\ outbox \subseteq {e \in Events : seq[e] > 0}
    /\ session \in [Connections -> {"none", "replaying", "sending", "live", "gone"}]
    /\ allowed \in [Connections -> BOOLEAN] /\ whole \in [Connections -> BOOLEAN]
    /\ cursor \in [Connections -> 0 .. nextSeq - 1]
    /\ socket \in [Connections -> {"none", "open", "closed"}]
    /\ \A c \in Connections : /\ rows[c] \in Seq(outbox) /\ IsInjective(rows[c])
                              /\ wire[c] \in Seq(outbox \cup {Truncated})
                              /\ wire[c] # <<>> => socket[c] = "open"
    /\ lastSeq \in 0 .. nextSeq - 1 /\ seen \subseteq outbox
    /\ handled \in [Events -> Nat]

(* Registering before the replay leaves no gap: on a connection that has   *)
(* stood since its handshake, and whose replay went through, every event   *)
(* above the handshake's cursor that was published in the meantime, before *)
(* it or across a crash is handled or on its way, though its row may have  *)
(* been committed after one with a higher seq.                             *)
NoGap ==
    \A c \in Connections : \A e \in outbox \cap Visible(c) :
        (session[c] = "live" /\ socket[c] = "open" /\ whole[c]
            /\ pub[e] = "done" /\ seq[e] > cursor[c])
        => handled[e] > 0 \/ e \in ToSet(wire[c])

(* An event that arrives by replay and live, on one connection or on two,  *)
(* reaches the handlers once between two cold starts.                      *)
AtMostOnce == \A e \in Events : handled[e] <= 1

(* A session whose socket is lost does not stay registered, whatever it    *)
(* was doing when it was lost.                                             *)
SessionsEnd == \A c \in Connections : socket[c] = "closed" ~> session[c] = "gone"

(* A row above the handshake's cursor reaches the page while the           *)
(* connection lasts, unless the replay fails or is truncated.              *)
Delivered ==
    \A c \in Connections, e \in Events :
        (session[c] \in {"replaying", "sending"} /\ e \in outbox \cap Visible(c)
            /\ seq[e] > cursor[c])
        ~> (handled[e] > 0 \/ socket[c] = "closed" \/ (session[c] = "live" /\ ~whole[c]))

(* What publishers, sessions and wires come to for the page.               *)
Open(c) == socket[c] = "open"

Announced == {e \in outbox : pub[e] = "done"}

Reader ==
    IF \E c \in Connections : Open(c) /\ allowed[c] THEN "all"
    ELSE IF \E c \in Connections : Open(c) THEN "some" ELSE "off"

Past == {e \in Events : seq[e] > 0 /\ \E c \in Connections : Open(c) /\ seq[e] <= cursor[c]}

CaughtUp == \E c \in Connections : Open(c) /\ whole[c]

Cut == \E c \in Connections : Truncated \in ToSet(wire[c])

Due == {e \in Events : handled[e] = 0 /\ \E c \in Connections : e \in ToSet(wire[c])}

Feed == INSTANCE EventFeed
            WITH announced <- Announced, reader <- Reader, past <- Past,
                 caughtUp <- CaughtUp, cut <- Cut, due <- Due

(* Whatever the order of commits, replays, live events, lost sockets and   *)
(* crashes, every step is a step of the plain feed of EventFeed or leaves  *)
(* it as it is: a session gets only what it may see, what was sent to a    *)
(* page is lost with its socket only, and a replay sends what was missed.  *)
ImplementsFeed == Feed!FeedSpec

(* What resuming is for: when the page has resumed and everything sent has *)
(* arrived, no event is missing that was published after one it has had    *)
(* (realtime/publish.ts).                                                  *)
ResumeMissesNothing ==
    \A c \in Connections :
        (session[c] = "live" /\ socket[c] = "open" /\ whole[c] /\ wire[c] = <<>>)
        => \A e \in outbox \cap Visible(c) :
              (pub[e] = "done" /\ \E d \in Events : handled[d] > 0 /\ seq[d] < seq[e])
              => handled[e] > 0
=============================================================================
