------------------------------ MODULE EventFeed ------------------------------
(***************************************************************************)
(* What the realtime events promise the page of one user, without rows,    *)
(* replays, messages or sockets.  Events are drawn into an order, published *)
(* in any other and announced once they are.  While the page is connected, *)
(* an event that is due stays due until the handlers have it, and they     *)
(* have it once.  A page that has caught up is owed everything announced   *)
(* that it may see, but for what it took as known when it connected; a     *)
(* page that is cut short starts cold, once.                               *)
(*                                                                         *)
(* Not promised is that the page has had what it takes as known: see       *)
(* ResumeMissesNothing in Realtime.                                        *)
(***************************************************************************)
EXTENDS Naturals

CONSTANTS Events, Restricted

VARIABLES seq,        \* the order of the events, 0 for one not drawn yet
          outbox,     \* the events published
          announced,  \* those whose publisher is through
          reader,     \* the page: "off", or it may see "all" events or "some"
          past,       \* what it took as known when it connected
          caughtUp,   \* it has been told what it missed
          cut,        \* it has been told so in part, and will start cold
          due,        \* on the way to it
          handled     \* how often its handlers had each event since it did

feed == <<seq, outbox, announced>>
feedVars == <<seq, outbox, announced, reader, past, caughtUp, cut, due, handled>>

FeedInit ==
    /\ seq = [e \in Events |-> 0] /\ outbox = {} /\ announced = {}
    /\ reader = "off" /\ past = {} /\ caughtUp = FALSE /\ cut = FALSE
    /\ due = {} /\ handled = [e \in Events |-> 0]

MaySee(e) == reader = "all" \/ (reader = "some" /\ e \notin Restricted)

Draw(e) ==
    /\ seq[e] = 0
    /\ \A d \in Events : seq[d] < seq'[e]
    /\ seq' = [seq EXCEPT ![e] = seq'[e]]
    /\ UNCHANGED <<outbox, announced, reader, past, caughtUp, cut, due, handled>>

Publish(e) ==
    /\ seq[e] > 0 /\ e \notin outbox
    /\ outbox' = outbox \cup {e}
    /\ UNCHANGED <<seq, announced, reader, past, caughtUp, cut, due, handled>>

Announce(e) ==
    /\ e \in outbox \ announced
    /\ announced' = announced \cup {e}
    /\ due' = due \cup {d \in {e} : MaySee(d) /\ handled[d] = 0}
    /\ UNCHANGED <<seq, outbox, reader, past, caughtUp, cut, handled>>

(* The page connects, and takes all before the last one it had as known. *)
Open ==
    /\ reader = "off" /\ reader' \in {"all", "some"}
    /\ past' = {e \in Events : seq[e] > 0 /\ \E d \in Events : handled[d] > 0 /\ seq[e] <= seq[d]}
    /\ UNCHANGED <<feed, caughtUp, cut, due, handled>>

Missed == {e \in outbox \ past : MaySee(e) /\ handled[e] = 0}

CatchUp ==
    /\ reader # "off" /\ ~caughtUp /\ ~cut
    /\ \E S \in SUBSET Missed : due' = due \cup S
    /\ announced \cap Missed \subseteq due'
    /\ caughtUp' = TRUE
    /\ UNCHANGED <<feed, reader, past, cut, handled>>

CatchUpInPart ==
    /\ reader # "off" /\ ~caughtUp /\ ~cut
    /\ \E S \in SUBSET Missed : due' = due \cup S
    /\ cut' = TRUE
    /\ UNCHANGED <<feed, reader, past, caughtUp, handled>>

Handle(e) ==
    /\ e \in due
    /\ due' = due \ {e}
    /\ handled[e] = 0 /\ handled' = [handled EXCEPT ![e] = 1]
    /\ UNCHANGED <<feed, reader, past, caughtUp, cut>>

(* What was handled before may come again. *)
StartCold ==
    /\ cut /\ cut' = FALSE
    /\ handled' = [e \in Events |-> 0]
    /\ \E S \in SUBSET {e \in Events : handled[e] > 0} : due' = due \cup S
    /\ UNCHANGED <<feed, reader, past, caughtUp>>

Closed ==
    /\ reader' = "off" /\ past' = {} /\ caughtUp' = FALSE /\ cut' = FALSE /\ due' = {}
    /\ UNCHANGED <<seq, outbox, handled>>

Close == reader # "off" /\ Closed /\ UNCHANGED announced

(* The publishers end with the server, before or after they have published. *)
Restart == Closed /\ announced' = outbox

FeedNext ==
    \/ \E e \in Events : Draw(e) \/ Publish(e) \/ Announce(e) \/ Handle(e)
    \/ Open \/ CatchUp \/ CatchUpInPart \/ StartCold \/ Close \/ Restart

FeedSpec == FeedInit /\ [][FeedNext]_feedVars
=============================================================================
