----------------------------- MODULE UploadQueue -----------------------------
(***************************************************************************)
(* The upload queue of the iOS app: one file in the container that the app *)
(* shares with its share extension, and that both read and write as a      *)
(* whole, the app through the actor UploadQueue, the extension through     *)
(* ShareUploadQueueWriter.                                                 *)
(*                                                                         *)
(* The app keeps the list in memory. A method of the actor is one action,  *)
(* and one that changes the list writes it over the file. The extension    *)
(* keeps nothing: it reads the file, changes its copy and writes that back,*)
(* and the app may act in between.                                         *)
(***************************************************************************)
EXTENDS Integers, FiniteSets

CONSTANTS Items,        \* photos that are enqueued, once each
          Filed,        \* those with their bytes in pending_uploads (tempFileURL)
          NoItem,       \* no item
          Budgets       \* bound: <<requests, kills, sessions>> of a behaviour

ASSUME ItemsAssumption == Filed \subseteq Items /\ NoItem \notin Items
ASSUME BoundsAssumption == Budgets \subseteq Nat \X Nat \X Nat

Status == {"none", "pending", "uploading", "done", "failed"}   \* "none": not listed
Lists  == [Items -> Status]
Empty  == [i \in Items |-> "none"]

VARIABLES
  disk,       \* upload_queue.json
  items,      \* the app's list
  drain,      \* [at, item]: where drainLoop stands, and the item it has claimed
  boot,       \* tasks of register() that have not run since the app started
  share,      \* [at, item, copy]: where the extension stands, what it has read
  previous,   \* previousPendingItems: left by earlier sessions
  tried,      \* those of them that the present attempt is through with
  files,      \* items whose bytes are in pending_uploads
  stored,     \* items the server has
  queued,     \* history: items that were enqueued
  dropped,    \* history: items the user took off the list
  clobbered,  \* history: items whose entry a process wrote over unread
  stranded,   \* history: uploads of a killed app that the last reset did not find
  requests,   \* what the user may still do to the app's list
  kills,      \* how often the app may still be killed
  sessions    \* how often the extension may still be opened

app     == <<items, drain, boot>>
sharing == <<share, previous, tried>>
server  == <<files, stored>>
budget  == <<requests, kills, sessions>>
vars == <<disk, app, sharing, server, queued, dropped, clobbered, stranded, budget>>

With(list, S, s) == [i \in Items |-> IF i \in S THEN s ELSE list[i]]
In(list, S)      == {i \in Items : list[i] \in S}

NoDrain == [at |-> "idle", item |-> NoItem]
Closed  == [at |-> "closed", item |-> NoItem, copy |-> Empty]

Init ==
  /\ disk = Empty /\ items = Empty
  /\ drain = NoDrain /\ boot = {"reset", "load"}
  /\ share = Closed /\ previous = {} /\ tried = {}
  /\ files = {} /\ stored = {}
  /\ queued = {} /\ dropped = {} /\ clobbered = {} /\ stranded = {}
  /\ \E b \in Budgets : requests = b[1] /\ kills = b[2] /\ sessions = b[3]

\* A list goes over the file, made from a base that is not always what is there:
\* the other process has written since it was read, or an app that was killed
\* has not read the file yet and starts from nothing. Those entries are lost.
Write(base, list) ==
  /\ disk' = list
  /\ clobbered' = clobbered \cup {i \in Items : base[i] # disk[i]}

\* persist
Persist(list) == items' = list /\ Write(items, list)

\* The methods that write only if they have changed something.
PersistChanged(S, s) ==
  IF S = {} THEN UNCHANGED <<disk, items, clobbered>> ELSE Persist(With(items, S, s))

-----------------------------------------------------------------------------
(* The app starts: two tasks in no order *)

\* resetStaleUploading
ResetStale ==
  /\ "reset" \in boot
  /\ boot' = boot \ {"reset"}
  /\ PersistChanged(In(items, {"uploading"}), "pending")
  /\ stranded' = In(disk, {"uploading"}) \ In(items, {"uploading"})
  /\ UNCHANGED <<drain, sharing, server, queued, dropped, budget>>

\* load
Load ==
  /\ "load" \in boot
  /\ boot' = boot \ {"load"}
  /\ items' = disk
  /\ UNCHANGED <<disk, drain, sharing, server, queued, dropped, clobbered, stranded, budget>>

\* The system kills the app; it may start again any time later.
Kill ==
  /\ kills > 0 /\ kills' = kills - 1
  /\ items' = Empty /\ drain' = NoDrain /\ boot' = {"reset", "load"}
  /\ UNCHANGED <<disk, sharing, server, queued, dropped, clobbered, stranded, requests, sessions>>

-----------------------------------------------------------------------------
(* drainLoop: one at a time in the app (drainLock) *)

Goto(from, to, i) == drain.at = from /\ drain' = [at |-> to, item |-> i]

StartDrain ==
  /\ Goto("idle", "claim", NoItem)
  /\ items' = disk
  /\ UNCHANGED <<disk, boot, sharing, server, queued, dropped, clobbered, stranded, budget>>

\* claimNextPending
Claim ==
  /\ \E i \in In(items, {"pending"}) :
       /\ Goto("claim", "check", i)
       /\ Persist(With(items, {i}, "uploading"))
  /\ UNCHANGED <<boot, sharing, server, queued, dropped, stranded, budget>>

NothingPending ==
  /\ In(items, {"pending"}) = {}
  /\ Goto("claim", "purge", NoItem)
  /\ UNCHANGED <<disk, items, boot, sharing, server, queued, dropped, clobbered,
                 stranded, budget>>

\* The network is allowed and the task not cancelled, or the item goes back.
CheckNetwork ==
  /\ \E to \in {"send", "break"} : Goto("check", to, drain.item)
  /\ UNCHANGED <<disk, items, boot, sharing, server, queued, dropped, clobbered,
                 stranded, budget>>

\* uploadSingleItem: done, cancelled or failed. The server may have the photo
\* though the answer is lost; a photo without its file may be in the library.
UploadSingleItem ==
  /\ \/ stored' = stored \cup {drain.item} /\ Goto("send", "markDone", drain.item)
     \/ /\ stored' \in {stored, stored \cup {drain.item}}
        /\ \E to \in {"cancelled", "markFailed"} : Goto("send", to, drain.item)
  /\ UNCHANGED <<disk, items, boot, sharing, files, queued, dropped, clobbered,
                 stranded, budget>>

\* Mutant: the item of a drain that stops stays claimed.
LeftClaimed == [break |-> "uploading", cancelled |-> "uploading",
                markDone |-> "done", markFailed |-> "failed"]

\* Mutant: a failed upload is tried again at once.
TriedAtOnce == [break |-> "pending", cancelled |-> "pending",
                markDone |-> "done", markFailed |-> "pending"]

\* What markPending, markDone and markFailed make of the item.
Outcome == [break |-> "pending", cancelled |-> "pending",
            markDone |-> "done", markFailed |-> "failed"]

\* An item that has left the list meanwhile is not found. A break goes on to
\* purgeDone, a cancelled upload ends the drain, the others go on.
Mark ==
  /\ \/ Goto("break", "purge", NoItem)
     \/ Goto("cancelled", "idle", NoItem)
     \/ Goto("markDone", "claim", NoItem)
     \/ Goto("markFailed", "claim", NoItem)
  /\ LET found == {drain.item} \ In(items, {"none"}) IN
       /\ PersistChanged(found, Outcome[drain.at])
       /\ files' = IF drain.at = "markDone" THEN files \ found ELSE files
  /\ UNCHANGED <<boot, sharing, stored, queued, dropped, stranded, budget>>

\* Mutant: what has failed is purged as well.
Settled == {"done", "failed"}

Purged == {"done"}

\* purgeDone
Purge ==
  /\ Goto("purge", "idle", NoItem)
  /\ PersistChanged(In(items, Purged), "none")
  /\ UNCHANGED <<boot, sharing, server, queued, dropped, stranded, budget>>

Drain == Claim \/ NothingPending \/ CheckNetwork \/ UploadSingleItem \/ Mark \/ Purge

-----------------------------------------------------------------------------
(* The app's other tasks *)

\* An item that the extension has not enqueued and is not about to.
New(i) == i \notin queued /\ (share.at = "enqueue" => share.item # i)

\* saveTempFile where there is no library entry, and enqueue.
Enqueue(i) ==
  /\ New(i)
  /\ queued' = queued \cup {i}
  /\ files' = files \cup ({i} \cap Filed)
  /\ Persist(With(items, {i}, "pending"))
  /\ UNCHANGED <<drain, boot, sharing, stored, dropped, stranded, budget>>

Ask == requests > 0 /\ requests' = requests - 1

\* cancelPending, removeAllFailed, remove: entries go with their files.
Remove ==
  /\ Ask
  /\ \E S \in {In(items, {"pending", "uploading"}), In(items, {"failed"})}
                \cup {{i} : i \in Items \ In(items, {"none"})} :
       /\ Persist(With(items, S, "none"))
       /\ files' = files \ S
       /\ dropped' = dropped \cup S
  /\ UNCHANGED <<drain, boot, sharing, stored, queued, stranded, kills, sessions>>

\* requeueAllFailed, or requeueTransientFailures: those with such a message.
Requeue ==
  /\ Ask
  /\ \E S \in SUBSET In(items, {"failed"}) : PersistChanged(S, "pending")
  /\ UNCHANGED <<drain, boot, sharing, server, queued, dropped, stranded, kills, sessions>>

-----------------------------------------------------------------------------
(* The share extension *)

ShareGoto(to, i, list) == share' = [at |-> to, item |-> i, copy |-> list]

\* Mutant: an entry without a file is taken as well.
AnyPending == In(disk, {"pending"})

\* pendingItems: those with a file.
PendingItems == In(disk, {"pending"}) \cap Filed

\* loadAlbums
ShareOpens ==
  /\ sessions > 0 /\ sessions' = sessions - 1
  /\ share.at = "closed" /\ ShareGoto("ready", NoItem, Empty)
  /\ previous' = PendingItems
  /\ UNCHANGED <<disk, app, tried, server, queued, dropped, clobbered, stranded, requests,
                 kills>>

\* enqueue: the bytes are written and the list is read ...
ShareWritesFile(i) ==
  /\ share.at = "ready" /\ i \notin queued
  /\ ShareGoto("enqueue", i, disk)
  /\ files' = files \cup {i}
  /\ UNCHANGED <<disk, app, previous, tried, stored, queued, dropped, clobbered, stranded,
                 budget>>

\* ... and written back with the entry.
ShareEnqueues ==
  /\ share.at = "enqueue" /\ ShareGoto("sendNew", share.item, Empty)
  /\ Write(share.copy, With(share.copy, {share.item}, "pending"))
  /\ queued' = queued \cup {share.item}
  /\ UNCHANGED <<app, previous, tried, server, dropped, stranded, budget>>

\* An item of an earlier session; without its bytes it is marked failed.
ShareResumes(i) ==
  /\ share.at = "ready" /\ i \in previous \ tried
  /\ ShareGoto(IF i \in files THEN "sendOld" ELSE "markFailed", i, Empty)
  /\ tried' = tried \cup {i}
  /\ UNCHANGED <<disk, app, previous, server, queued, dropped, clobbered, stranded, budget>>

\* After an error the user tries again: all of them, those already sent as well.
ShareTriesAgain ==
  /\ Ask
  /\ share.at = "ready" /\ tried' = {}
  /\ UNCHANGED <<disk, app, share, previous, server, queued, dropped, clobbered, stranded,
                 kills, sessions>>

\* Or the user clears them from view, entry by entry.
ShareClears(i) ==
  /\ Ask
  /\ share.at = "ready" /\ i \in previous
  /\ ShareGoto("markFailed", i, Empty)
  /\ previous' = previous \ {i}
  /\ UNCHANGED <<disk, app, tried, server, queued, dropped, clobbered, stranded, kills,
                 sessions>>

\* uploadPhoto, without a claim. A new item that fails stays pending for the
\* app, an old one is marked failed.
ShareUploads ==
  /\ share.at \in {"sendNew", "sendOld"}
  /\ \/ stored' = stored \cup {share.item} /\ ShareGoto("markDone", share.item, Empty)
     \/ /\ stored' \in {stored, stored \cup {share.item}}
        /\ IF share.at = "sendNew" THEN ShareGoto("ready", NoItem, Empty)
           ELSE ShareGoto("markFailed", share.item, Empty)
  /\ UNCHANGED <<disk, app, previous, tried, files, queued, dropped, clobbered, stranded,
                 budget>>

\* markDone and markFailed: the list is read, the file of a done item removed ...
ShareMarks ==
  /\ share.at \in {"markDone", "markFailed"}
  /\ IF disk[share.item] = "none" THEN ShareGoto("ready", NoItem, Empty) /\ files' = files
     ELSE IF share.at = "markDone"
          THEN ShareGoto("done", share.item, disk) /\ files' = files \ {share.item}
          ELSE ShareGoto("failed", share.item, disk) /\ files' = files
  /\ UNCHANGED <<disk, app, previous, tried, stored, queued, dropped, clobbered, stranded,
                 budget>>

\* ... and the list written back.
ShareSaves ==
  /\ share.at \in {"done", "failed"} /\ ShareGoto("ready", NoItem, Empty)
  /\ Write(share.copy, With(share.copy, {share.item}, share.at))
  /\ UNCHANGED <<app, previous, tried, server, queued, dropped, stranded, budget>>

\* cancelUpload, at an await of the upload: cancelAll reads the list and
\* removes the files ...
ShareCancels ==
  /\ share.at \in {"ready", "sendNew", "sendOld"}
  /\ ShareGoto("cancel", NoItem, disk)
  /\ files' = files \ In(disk, {"pending"})
  /\ dropped' = dropped \cup In(disk, {"pending"})
  /\ UNCHANGED <<disk, app, previous, tried, stored, queued, clobbered, stranded, budget>>

\* ... writes back the rest, and the extension is dismissed.
ShareCancelled ==
  /\ share.at = "cancel" /\ share' = Closed
  /\ previous' = {} /\ tried' = {}
  /\ Write(share.copy, With(share.copy, In(share.copy, {"pending"}), "none"))
  /\ UNCHANGED <<app, server, queued, dropped, stranded, budget>>

\* closeWithBackground, the end, or the system kills the extension anywhere.
ShareCloses ==
  /\ share.at # "closed" /\ share' = Closed
  /\ previous' = {} /\ tried' = {}
  /\ UNCHANGED <<disk, app, server, queued, dropped, clobbered, stranded, budget>>

Extension ==
  \/ ShareOpens \/ ShareEnqueues \/ ShareUploads \/ ShareMarks \/ ShareSaves
  \/ ShareCancels \/ ShareCancelled \/ ShareCloses
  \/ ShareTriesAgain
  \/ \E i \in Filed : ShareWritesFile(i) \/ ShareResumes(i) \/ ShareClears(i)

-----------------------------------------------------------------------------
Next ==
  \/ ResetStale \/ Load \/ Kill
  \/ StartDrain \/ Drain
  \/ Remove \/ Requeue
  \/ \E i \in Items : Enqueue(i)
  \/ Extension

Spec == Init /\ [][Next]_vars

\* A drain runs on: an upload ends with an answer or an error. No drain, no
\* request and no step of the extension is promised.
FairSpec == Spec /\ WF_vars(Drain)

-----------------------------------------------------------------------------
Holding     == {"check", "send", "break", "cancelled", "markDone", "markFailed"}
DrainPlaces == Holding \cup {"idle", "claim", "purge"}
SharePlaces == {"closed", "ready", "enqueue", "sendNew", "sendOld", "markDone",
                "markFailed", "done", "failed", "cancel"}

(* Lists, places and histories are what they are meant to be; an extension  *)
(* only takes over items whose bytes it can read from a file.               *)
TypeOK ==
  /\ disk \in Lists /\ items \in Lists
  /\ drain \in [at : DrainPlaces, item : Items \cup {NoItem}]
  /\ boot \subseteq {"reset", "load"}
  /\ share \in [at : SharePlaces, item : Filed \cup {NoItem}, copy : Lists]
  /\ previous \subseteq Filed /\ tried \subseteq Filed /\ files \subseteq Filed
  /\ stored \subseteq Items /\ queued \subseteq Items /\ dropped \subseteq Items
  /\ clobbered \subseteq Items /\ stranded \subseteq Items
  /\ requests \in Nat /\ kills \in Nat /\ sessions \in Nat

(* A photo that was enqueued and that the server does not have is in the    *)
(* file's list, still to be sent, with its bytes, in whatever order the two *)
(* processes act and are killed. Except what the user took off and what a   *)
(* process wrote over without having read it: a change that the other one   *)
(* made after its read, or the app's own list from before a kill, when it   *)
(* enqueues or removes something before its first load (UploadQueue,        *)
(* ShareUploadQueueWriter).                                                 *)
NothingLost ==
  \A i \in queued \ (stored \cup dropped \cup clobbered) :
    disk[i] \in {"pending", "uploading", "failed"} /\ (i \in Filed => i \in files)

(* Once the app that has started has reset what its predecessor left, an    *)
(* item shown as uploading is the one that the drain holds: none is hidden  *)
(* from every further drain. Except what the reset did not find, because it *)
(* came before the load, and what a process wrote over without having read  *)
(* it (resetStaleUploading, claimNextPending).                              *)
UploadingIsHeld ==
  "reset" \notin boot =>
    \A i \in In(items, {"uploading"}) \ (stranded \cup clobbered) :
      drain.item = i /\ drain.at \in Holding

(* A drain ends: what has failed is not tried again by the same drain, and  *)
(* what cannot be sent now ends it.                                         *)
DrainEnds == drain.at # "idle" ~> drain.at = "idle"
=============================================================================
