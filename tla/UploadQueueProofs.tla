--------------------------- MODULE UploadQueueProofs ---------------------------
(* Theorems about UploadQueue, for any items and bounds.                       *)
EXTENDS UploadQueue, TLAPS

(* Who has an item at hand knows which. *)
AtHand ==
  /\ drain.at \in Holding => drain.item \in Items
  /\ drain.at \notin Holding => drain.item = NoItem
  /\ share.at \notin {"closed", "ready", "cancel"} => share.item \in Filed

Typed == TypeOK /\ AtHand

LEMMA StatusNames ==
  /\ "none" \in Status /\ "pending" \in Status /\ "uploading" \in Status
  /\ "done" \in Status /\ "failed" \in Status
  BY DEF Status

LEMMA WithTyped ==
  ASSUME NEW list \in Lists, NEW S, NEW s \in Status
  PROVE  With(list, S, s) \in Lists
  BY DEF Lists, With

LEMMA EmptyTyped == Empty \in Lists
  BY StatusNames DEF Lists, Empty

LEMMA OutcomeTyped ==
  ASSUME NEW place \in {"break", "cancelled", "markDone", "markFailed"}
  PROVE  Outcome[place] \in {"pending", "done", "failed"}
  BY DEF Outcome

LEMMA WriteTyped ==
  ASSUME TypeOK, NEW base, NEW list \in Lists, Write(base, list)
  PROVE  disk' \in Lists /\ clobbered' \subseteq Items
  BY DEF TypeOK, Write

LEMMA PersistTyped ==
  ASSUME TypeOK, NEW list \in Lists, Persist(list)
  PROVE  disk' \in Lists /\ items' \in Lists /\ clobbered' \subseteq Items
  BY WriteTyped DEF Persist

LEMMA PersistChangedTyped ==
  ASSUME TypeOK, NEW S, NEW s \in Status, PersistChanged(S, s)
  PROVE  disk' \in Lists /\ items' \in Lists /\ clobbered' \subseteq Items
<1>1. With(items, S, s) \in Lists
  BY WithTyped DEF TypeOK
<1> QED
  BY <1>1, PersistTyped DEF TypeOK, PersistChanged

LEMMA TypedInit == Init => Typed
  BY ItemsAssumption, BoundsAssumption, EmptyTyped
     DEF Init, Typed, TypeOK, AtHand, NoDrain, Closed, DrainPlaces, SharePlaces, Holding

(* The lists and the items overwritten, by whoever writes. *)
LEMMA ListsStep ==
  TypeOK /\ AtHand /\ [Next]_vars => disk' \in Lists /\ items' \in Lists /\ clobbered' \subseteq Items
<1> SUFFICES ASSUME TypeOK, AtHand, [Next]_vars
             PROVE  disk' \in Lists /\ items' \in Lists /\ clobbered' \subseteq Items
  OBVIOUS
<1> USE DEF app, sharing, server, budget
<1>t. disk \in Lists /\ items \in Lists /\ share.copy \in Lists /\ clobbered \subseteq Items
  BY DEF TypeOK
<1>1. CASE ResetStale
  BY <1>1, StatusNames, PersistChangedTyped DEF ResetStale
<1>2. CASE \/ Load \/ Kill \/ StartDrain \/ NothingPending \/ CheckNetwork
           \/ UploadSingleItem \/ ShareOpens \/ ShareTriesAgain \/ ShareUploads
           \/ ShareMarks \/ ShareCancels \/ ShareCloses \/ UNCHANGED vars
  BY <1>2, <1>t, EmptyTyped DEF Load, Kill, StartDrain, NothingPending, CheckNetwork,
     UploadSingleItem, ShareOpens, ShareTriesAgain, ShareUploads, ShareMarks, ShareCancels,
     ShareCloses, vars
<1>3. CASE Claim
  BY <1>3, <1>t, StatusNames, WithTyped, PersistTyped DEF Claim
<1>4. CASE Mark
  <2>1. Outcome[drain.at] \in Status
    BY <1>4, OutcomeTyped, StatusNames DEF Mark, Goto
  <2> QED
    BY <1>4, <2>1, PersistChangedTyped DEF Mark
<1>5. CASE Purge
  BY <1>5, StatusNames, PersistChangedTyped DEF Purge
<1>6. ASSUME NEW i \in Items, Enqueue(i)
      PROVE  disk' \in Lists /\ items' \in Lists /\ clobbered' \subseteq Items
  BY <1>6, <1>t, StatusNames, WithTyped, PersistTyped DEF Enqueue
<1>7. CASE Remove
  BY <1>7, <1>t, StatusNames, WithTyped, PersistTyped DEF Remove
<1>8. CASE Requeue
  BY <1>8, StatusNames, PersistChangedTyped DEF Requeue
<1>9. ASSUME NEW i \in Filed, ShareWritesFile(i) \/ ShareResumes(i) \/ ShareClears(i)
      PROVE  disk' \in Lists /\ items' \in Lists /\ clobbered' \subseteq Items
  BY <1>9, <1>t DEF ShareWritesFile, ShareResumes, ShareTriesAgain, ShareClears
<1>10. CASE ShareEnqueues \/ ShareSaves \/ ShareCancelled
  <2>1. ASSUME NEW S, NEW s \in Status, Write(share.copy, With(share.copy, S, s))
        PROVE  disk' \in Lists /\ clobbered' \subseteq Items
    BY <2>1, <1>t, WithTyped, WriteTyped
  <2>2. CASE ShareEnqueues
    BY <2>1, <2>2, <1>t, StatusNames DEF ShareEnqueues
  <2>3. CASE ShareSaves
    <3>1. share.at \in Status
      BY <2>3, StatusNames DEF ShareSaves
    <3> QED
      BY <2>1, <2>3, <3>1, <1>t DEF ShareSaves
  <2>4. CASE ShareCancelled
    BY <2>1, <2>4, <1>t, StatusNames DEF ShareCancelled
  <2> QED
    BY <1>10, <2>2, <2>3, <2>4
<1> QED
  BY <1>1, <1>2, <1>3, <1>4, <1>5, <1>6, <1>7, <1>8, <1>9, <1>10 DEF Next, Drain, Extension

(* Where drain and extension stand. *)
LEMMA PlacesStep ==
  TypeOK /\ AtHand /\ [Next]_vars =>
    /\ drain' \in [at : DrainPlaces, item : Items \cup {NoItem}]
    /\ share' \in [at : SharePlaces, item : Filed \cup {NoItem}, copy : Lists]
    /\ AtHand'
<1> SUFFICES ASSUME TypeOK, AtHand, [Next]_vars
             PROVE  /\ drain' \in [at : DrainPlaces, item : Items \cup {NoItem}]
                    /\ share' \in [at : SharePlaces, item : Filed \cup {NoItem}, copy : Lists]
                    /\ AtHand'
  OBVIOUS
<1> USE ItemsAssumption DEF app, sharing, server, budget
<1>t. /\ drain \in [at : DrainPlaces, item : Items \cup {NoItem}]
      /\ share \in [at : SharePlaces, item : Filed \cup {NoItem}, copy : Lists]
      /\ disk \in Lists
  BY DEF TypeOK
<1>1. CASE UNCHANGED <<drain, share>>
  BY <1>1, <1>t DEF AtHand
<1>2. CASE Kill \/ StartDrain \/ Claim \/ NothingPending \/ CheckNetwork \/ UploadSingleItem
           \/ Mark \/ Purge
  <2>1. UNCHANGED share
    BY <1>2 DEF Kill, StartDrain, Claim, NothingPending, CheckNetwork, UploadSingleItem, Mark, Purge
  <2>2. /\ drain' \in [at : DrainPlaces, item : Items \cup {NoItem}]
        /\ drain'.at \in Holding => drain'.item \in Items
        /\ drain'.at \notin Holding => drain'.item = NoItem
    <3> USE DEF DrainPlaces, Holding
    <3>1. CASE Claim
      <4>1. PICK i \in Items : Goto("claim", "check", i)
        BY <3>1 DEF Claim, In
      <4> QED
        BY <4>1 DEF Goto
    <3>2. CASE CheckNetwork \/ UploadSingleItem
      <4>1. PICK to \in {"send", "break", "cancelled", "markDone", "markFailed"} :
              /\ drain.at \in Holding
              /\ drain' = [at |-> to, item |-> drain.item]
        BY <3>2 DEF CheckNetwork, UploadSingleItem, Goto
      <4> QED
        BY <4>1 DEF AtHand
    <3>3. CASE Kill \/ StartDrain \/ NothingPending \/ Mark \/ Purge
      <4>1. PICK to \in {"idle", "claim", "purge"} : drain' = [at |-> to, item |-> NoItem]
        BY <3>3 DEF Kill, StartDrain, NothingPending, Mark, Purge, Goto, NoDrain
      <4> QED
        BY <4>1
    <3> QED
      BY <1>2, <3>1, <3>2, <3>3
  <2> QED
    BY <1>t, <2>1, <2>2 DEF AtHand
<1>3. ASSUME \/ ShareOpens \/ ShareTriesAgain \/ ShareEnqueues \/ ShareUploads
             \/ ShareMarks \/ ShareSaves \/ ShareCancels \/ ShareCancelled \/ ShareCloses
             \/ \E i \in Filed : ShareWritesFile(i) \/ ShareResumes(i) \/ ShareClears(i)
      PROVE  /\ drain' \in [at : DrainPlaces, item : Items \cup {NoItem}]
             /\ share' \in [at : SharePlaces, item : Filed \cup {NoItem}, copy : Lists]
             /\ AtHand'
  <2>1. UNCHANGED drain
    BY <1>3 DEF ShareOpens, ShareEnqueues, ShareUploads, ShareMarks, ShareSaves,
       ShareCancels, ShareCancelled, ShareCloses, ShareWritesFile, ShareResumes,
       ShareTriesAgain, ShareClears
  <2>2. /\ share' \in [at : SharePlaces, item : Filed \cup {NoItem}, copy : Lists]
        /\ share'.at \notin {"closed", "ready", "cancel"} => share'.item \in Filed
    BY <1>3, <1>t, EmptyTyped DEF AtHand, ShareOpens, ShareEnqueues, ShareUploads,
       ShareMarks, ShareSaves, ShareCancels, ShareCancelled, ShareCloses, ShareWritesFile,
       ShareResumes, ShareTriesAgain, ShareClears, ShareGoto, Closed, SharePlaces
  <2> QED
    BY <1>t, <2>1, <2>2 DEF AtHand
<1>4. CASE ResetStale \/ Load \/ Remove \/ Requeue \/ (\E i \in Items : Enqueue(i))
  BY <1>1, <1>4 DEF ResetStale, Load, Remove, Requeue, Enqueue
<1>5. CASE UNCHANGED vars
  BY <1>1, <1>5 DEF vars
<1> QED
  BY <1>2, <1>3, <1>4, <1>5 DEF Next, Drain, Extension

(* What the server has, the bytes, the histories and the bounds. *)
LEMMA SetsStep ==
  TypeOK /\ AtHand /\ [Next]_vars =>
    /\ boot' \subseteq {"reset", "load"}
    /\ previous' \subseteq Filed /\ tried' \subseteq Filed /\ files' \subseteq Filed
    /\ stored' \subseteq Items /\ queued' \subseteq Items /\ dropped' \subseteq Items
    /\ stranded' \subseteq Items
    /\ requests' \in Nat /\ kills' \in Nat /\ sessions' \in Nat
<1> SUFFICES ASSUME TypeOK, AtHand, [Next]_vars
             PROVE  /\ boot' \subseteq {"reset", "load"}
                    /\ previous' \subseteq Filed /\ tried' \subseteq Filed /\ files' \subseteq Filed
                    /\ stored' \subseteq Items /\ queued' \subseteq Items
                    /\ dropped' \subseteq Items /\ stranded' \subseteq Items
                    /\ requests' \in Nat /\ kills' \in Nat /\ sessions' \in Nat
  OBVIOUS
<1> USE ItemsAssumption DEF app, sharing, server, budget, TypeOK, In
<1>1. CASE ResetStale \/ Load \/ StartDrain \/ NothingPending \/ CheckNetwork \/ Purge \/ Claim
  BY <1>1 DEF ResetStale, Load, StartDrain, NothingPending, CheckNetwork, Purge, Claim
<1>9. CASE Kill
  BY <1>9 DEF Kill
<1>10. CASE Requeue
  BY <1>10 DEF Requeue, Ask
<1>11. CASE ShareOpens
  BY <1>11 DEF ShareOpens, PendingItems
<1>12. CASE ShareTriesAgain
  BY <1>12 DEF ShareTriesAgain, Ask
<1>13. ASSUME NEW i \in Filed, ShareClears(i)
       PROVE  /\ UNCHANGED <<boot, tried, files, stored, queued, dropped, stranded, kills, sessions>>
              /\ previous' \subseteq Filed /\ requests' \in Nat
  BY <1>13 DEF ShareClears, Ask
<1>2. CASE UploadSingleItem
  <2>1. drain.item \in Items
    BY <1>2 DEF UploadSingleItem, Goto, AtHand, Holding
  <2> QED
    BY <1>2, <2>1 DEF UploadSingleItem
<1>3. CASE Mark
  BY <1>3 DEF Mark
<1>4. CASE Remove
  BY <1>4 DEF Remove, Ask
<1>5. ASSUME NEW i \in Items, Enqueue(i)
      PROVE  UNCHANGED <<boot, previous, tried, stored, dropped, stranded, budget>>
             /\ files' \subseteq Filed /\ queued' \subseteq Items
  BY <1>5 DEF Enqueue
<1>6. CASE ShareEnqueues \/ ShareUploads \/ ShareMarks
  <2>1. share.item \in Items
    BY <1>6 DEF ShareEnqueues, ShareUploads, ShareMarks, AtHand
  <2> QED
    BY <1>6, <2>1 DEF ShareEnqueues, ShareUploads, ShareMarks
<1>7. CASE ShareSaves \/ ShareCancels \/ ShareCancelled \/ ShareCloses
           \/ (\E i \in Filed : ShareWritesFile(i) \/ ShareResumes(i))
  BY <1>7 DEF ShareSaves, ShareCancels, ShareCancelled, ShareCloses,
     ShareWritesFile, ShareResumes
<1>8. CASE UNCHANGED vars
  BY <1>8 DEF vars
<1> QED
  BY <1>1, <1>2, <1>3, <1>4, <1>5, <1>6, <1>7, <1>8, <1>9, <1>10, <1>11,
     <1>12, <1>13 DEF Next, Drain, Extension

LEMMA TypedStep == Typed /\ [Next]_vars => Typed'
  BY ListsStep, PlacesStep, SetsStep DEF Typed, TypeOK

LEMMA TypedInvariant == Spec => []Typed
<1> QED
  BY TypedInit, TypedStep, PTL DEF Spec

(* Lists, places, bytes and histories are well typed in every reachable     *)
(* state, for any items and any number of requests, kills and sessions.     *)
THEOREM TypeCorrect == Spec => []TypeOK
<1>1. Typed => TypeOK
  BY DEF Typed
<1> QED
  BY <1>1, TypedInvariant, PTL

-----------------------------------------------------------------------------
(* No photo is lost *)

(* Who is about to report an upload has been told that the server has it.   *)
Told ==
  /\ drain.at = "markDone" => drain.item \in stored
  /\ share.at \in {"markDone", "done"} => share.item \in stored

(* Every list speaks of items that were enqueued.                            *)
Listed ==
  \A i \in Items :
    disk[i] # "none" \/ items[i] # "none" \/ share.copy[i] # "none" => i \in queued

(* What is about to be enqueued has its bytes and is in no list yet.         *)
BeingEnqueued == share.at = "enqueue" => share.item \in files \ queued

(* What cancelAll is about to leave out, the user has taken off the list.    *)
BeingCancelled == share.at = "cancel" => In(share.copy, {"pending"}) \subseteq dropped

(* What the extension marks is in the list that it has read.                 *)
BeingMarked == share.at \in {"done", "failed"} => share.item \in queued

Kept == Told /\ Listed /\ BeingEnqueued /\ BeingCancelled /\ BeingMarked

LEMMA WithAt ==
  ASSUME NEW list, NEW S, NEW s, NEW i \in Items
  PROVE  With(list, S, s)[i] = IF i \in S THEN s ELSE list[i]
  BY DEF With

(* What a write does to an item whose entry is the one the writer has read.  *)
LEMMA WriteAt ==
  ASSUME Typed, NEW base, NEW list, Write(base, list), NEW i \in Items, i \notin clobbered'
  PROVE  base[i] = disk[i] /\ disk'[i] = list[i] /\ i \notin clobbered
  BY DEF Write

LEMMA PersistChangedAt ==
  ASSUME Typed, NEW S, NEW s, PersistChanged(S, s), NEW i \in Items, i \notin clobbered'
  PROVE  /\ i \notin clobbered
         /\ i \in S => items[i] = disk[i] /\ disk'[i] = s
         /\ i \notin S => disk'[i] = disk[i]
<1>1. CASE S = {}
  BY <1>1 DEF PersistChanged
<1>2. CASE S # {}
  BY <1>2, WriteAt, WithAt DEF PersistChanged, Persist
<1> QED
  BY <1>1, <1>2

(* Items leave the list of what was enqueued, taken off or overwritten, or   *)
(* the server, never.                                                        *)
LEMMA HistoriesGrow ==
  Typed /\ [Next]_vars =>
    /\ stored \subseteq stored' /\ queued \subseteq queued'
    /\ dropped \subseteq dropped' /\ clobbered \subseteq clobbered'
<1> SUFFICES ASSUME Typed, [Next]_vars
             PROVE  /\ stored \subseteq stored' /\ queued \subseteq queued'
                    /\ dropped \subseteq dropped' /\ clobbered \subseteq clobbered'
  OBVIOUS
<1> USE DEF app, sharing, server, budget
<1>w. /\ \A base, list : Write(base, list) => clobbered \subseteq clobbered'
      /\ \A S, s : PersistChanged(S, s) => clobbered \subseteq clobbered'
  BY DEF Write, Persist, PersistChanged
<1>1. CASE ResetStale
  BY <1>1, <1>w DEF ResetStale
<1>2. CASE Load \/ Kill \/ StartDrain \/ NothingPending \/ CheckNetwork \/ UploadSingleItem
           \/ UNCHANGED vars
  BY <1>2 DEF Load, Kill, StartDrain, NothingPending, CheckNetwork, UploadSingleItem, vars
<1>3. CASE Claim
  BY <1>3, <1>w DEF Claim, Persist
<1>4. CASE Mark
  BY <1>4, <1>w DEF Mark
<1>5. CASE Purge
  BY <1>5, <1>w DEF Purge
<1>6. ASSUME NEW i \in Items, Enqueue(i)
      PROVE  /\ stored \subseteq stored' /\ queued \subseteq queued'
             /\ dropped \subseteq dropped' /\ clobbered \subseteq clobbered'
  BY <1>6, <1>w DEF Enqueue, Persist
<1>7. CASE Remove
  BY <1>7, <1>w DEF Remove, Persist
<1>8. CASE Requeue
  BY <1>8, <1>w DEF Requeue
<1>9. CASE ShareEnqueues \/ ShareSaves \/ ShareCancelled
  BY <1>9, <1>w DEF ShareEnqueues, ShareSaves, ShareCancelled
<1>10. CASE \/ ShareOpens \/ ShareTriesAgain \/ ShareUploads \/ ShareMarks \/ ShareCancels
            \/ ShareCloses
            \/ (\E i \in Filed : ShareWritesFile(i) \/ ShareResumes(i) \/ ShareClears(i))
  BY <1>10 DEF ShareOpens, ShareUploads, ShareMarks, ShareCancels, ShareCloses,
     ShareWritesFile, ShareResumes, ShareTriesAgain, ShareClears
<1> QED
  BY <1>1, <1>2, <1>3, <1>4, <1>5, <1>6, <1>7, <1>8, <1>9, <1>10 DEF Next, Drain, Extension

LEMMA KeptInit == Init => Kept
  BY DEF Init, Kept, Told, Listed, BeingEnqueued, BeingCancelled, BeingMarked, NoDrain, Closed, Empty

LEMMA ToldStep == Typed /\ Told /\ [Next]_vars => Told'
<1> SUFFICES ASSUME Typed, Told, [Next]_vars PROVE Told'
  OBVIOUS
<1>g. stored \subseteq stored'
  BY HistoriesGrow
<1> USE DEF app, sharing, server
<1>1. drain'.at = "markDone" => drain'.item \in stored'
  <2>1. CASE UNCHANGED drain
    BY <1>g, <2>1 DEF Told
  <2>2. CASE UploadSingleItem
    BY <2>2 DEF UploadSingleItem, Goto
  <2>3. CASE Kill \/ StartDrain \/ Claim \/ NothingPending \/ CheckNetwork \/ Mark \/ Purge
    <3>1. drain'.at # "markDone"
      <4>1. CASE Kill
        BY <4>1 DEF Kill, NoDrain
      <4>2. CASE Claim
        <5>1. PICK i \in In(items, {"pending"}) : Goto("claim", "check", i)
          BY <4>2 DEF Claim
        <5> QED
          BY <5>1 DEF Goto
      <4>4. CASE CheckNetwork
        BY <4>4 DEF CheckNetwork, Goto
      <4>3. CASE StartDrain \/ NothingPending \/ Mark \/ Purge
        BY <4>3 DEF StartDrain, NothingPending, Mark, Purge, Goto
      <4> QED
        BY <2>3, <4>1, <4>2, <4>3, <4>4
    <3> QED
      BY <3>1
  <2>4. CASE \/ ResetStale \/ Load \/ Remove \/ Requeue \/ UNCHANGED vars
             \/ \E i \in Items : Enqueue(i)
             \/ ShareOpens \/ ShareTriesAgain \/ ShareEnqueues \/ ShareUploads
             \/ ShareMarks \/ ShareSaves \/ ShareCancels \/ ShareCancelled \/ ShareCloses
             \/ \E i \in Filed : ShareWritesFile(i) \/ ShareResumes(i) \/ ShareClears(i)
    <3>1. UNCHANGED drain
      BY <2>4 DEF ResetStale, Load, Remove, Requeue, Enqueue, ShareOpens, ShareEnqueues,
         ShareUploads, ShareMarks, ShareSaves, ShareCancels, ShareCancelled, ShareCloses,
         ShareWritesFile, ShareResumes, ShareTriesAgain, ShareClears, vars
    <3> QED
      BY <2>1, <3>1
  <2> QED
    BY <2>2, <2>3, <2>4 DEF Next, Drain, Extension
<1>2. share'.at \in {"markDone", "done"} => share'.item \in stored'
  <2>1. CASE UNCHANGED share
    BY <1>g, <2>1 DEF Told
  <2>2. CASE ShareUploads
    BY <2>2 DEF ShareUploads, ShareGoto
  <2>3. CASE ShareMarks
    BY <2>3, <1>g DEF ShareMarks, ShareGoto, Told
  <2>4. CASE \/ ShareOpens \/ ShareTriesAgain \/ ShareEnqueues \/ ShareSaves
             \/ ShareCancels \/ ShareCancelled \/ ShareCloses
             \/ \E i \in Filed : ShareWritesFile(i) \/ ShareResumes(i) \/ ShareClears(i)
    BY <2>4 DEF ShareOpens, ShareEnqueues, ShareSaves, ShareCancels, ShareCancelled,
       ShareCloses, ShareWritesFile, ShareResumes, ShareTriesAgain, ShareClears, ShareGoto,
       Closed
  <2>5. CASE \/ ResetStale \/ Load \/ Remove \/ Requeue \/ UNCHANGED vars
             \/ \E i \in Items : Enqueue(i)
             \/ Kill \/ StartDrain \/ Drain
    <3>1. UNCHANGED share
      BY <2>5 DEF ResetStale, Load, Remove, Requeue, Enqueue, Kill, StartDrain, Drain, Claim,
         NothingPending, CheckNetwork, UploadSingleItem, Mark, Purge, vars
    <3> QED
      BY <2>1, <3>1
  <2> QED
    BY <2>2, <2>3, <2>4, <2>5 DEF Next, Extension
<1> QED
  BY <1>1, <1>2 DEF Told

LEMMA PersistListed ==
  ASSUME Typed, Listed, NEW S, NEW s, S \subseteq queued' \/ s = "none", queued \subseteq queued',
         \/ PersistChanged(S, s) \/ Persist(With(items, S, s))
  PROVE  \A i \in Items : disk'[i] # "none" \/ items'[i] # "none" => i \in queued'
<1> SUFFICES ASSUME NEW i \in Items, disk'[i] # "none" \/ items'[i] # "none"
             PROVE  i \in queued'
  OBVIOUS
<1>1. CASE UNCHANGED <<disk, items, clobbered>>
  BY <1>1 DEF Listed
<1>2. CASE Persist(With(items, S, s))
  BY <1>2, WithAt DEF Persist, Write, Listed
<1> QED
  BY <1>1, <1>2 DEF PersistChanged

LEMMA ListedStep == Typed /\ Listed /\ BeingMarked /\ [Next]_vars => Listed'
<1> SUFFICES ASSUME Typed, Listed, BeingMarked, [Next]_vars PROVE Listed'
  OBVIOUS
<1>g. queued \subseteq queued'
  BY HistoriesGrow
<1> USE DEF app, sharing, server
<1>p. ASSUME UNCHANGED share,
             \E S, s : /\ S \subseteq queued' \/ s = "none"
                       /\ PersistChanged(S, s) \/ Persist(With(items, S, s))
      PROVE  Listed'
  BY <1>g, <1>p, PersistListed DEF Listed
<1>q. In(items, {"uploading"}) \subseteq queued /\ In(items, {"pending"}) \subseteq queued
      /\ \A S \in SUBSET In(items, {"failed"}) : S \subseteq queued
      /\ \A i : {i} \ In(items, {"none"}) \subseteq Items => {i} \ In(items, {"none"}) \subseteq queued
  BY DEF Listed, In
<1>1. CASE ResetStale
  BY <1>1, <1>g, <1>p, <1>q DEF ResetStale
<1>2. CASE Load \/ StartDrain
  BY <1>2 DEF Load, StartDrain, Listed
<1>3. CASE Kill
  BY <1>3 DEF Kill, Listed, Empty
<1>4. CASE \/ NothingPending \/ CheckNetwork \/ UploadSingleItem \/ ShareTriesAgain
           \/ UNCHANGED vars
  BY <1>4 DEF NothingPending, CheckNetwork, UploadSingleItem, ShareTriesAgain, Listed, vars
<1>5. CASE Claim
  <2>1. PICK i \in In(items, {"pending"}) : Persist(With(items, {i}, "uploading"))
    BY <1>5 DEF Claim
  <2>2. {i} \subseteq queued' /\ UNCHANGED share
    BY <1>5, <1>g, <1>q DEF Claim
  <2> QED
    BY <2>1, <2>2, <1>p
<1>6. CASE Mark
  <2>1. drain.item \in Items
    BY <1>6 DEF Mark, Goto, Typed, AtHand, Holding
  <2>2. {drain.item} \ In(items, {"none"}) \subseteq queued'
    BY <2>1, <1>g, <1>q
  <2> QED
    BY <1>6, <2>2, <1>p DEF Mark
<1>7. CASE Purge
  BY <1>7, <1>p DEF Purge
<1>8. ASSUME NEW i \in Items, Enqueue(i) PROVE Listed'
  <2>1. {i} \subseteq queued' /\ UNCHANGED share /\ Persist(With(items, {i}, "pending"))
    BY <1>8 DEF Enqueue
  <2> QED
    BY <2>1, <1>p
<1>9. CASE Remove
  BY <1>9, <1>p DEF Remove
<1>10. CASE Requeue
  <2>1. PICK S \in SUBSET In(items, {"failed"}) : PersistChanged(S, "pending")
    BY <1>10 DEF Requeue
  <2>2. S \subseteq queued' /\ UNCHANGED share
    BY <1>10, <1>g, <1>q DEF Requeue
  <2> QED
    BY <2>1, <2>2, <1>p
<1>11. CASE ShareEnqueues \/ ShareSaves \/ ShareCancelled
  <2>1. \A i \in Items : disk'[i] # "none" => i \in queued'
    <3>1. CASE ShareEnqueues
      BY <3>1, <1>g, WithAt DEF ShareEnqueues, Write, Listed
    <3>2. CASE ShareSaves
      <4>1. share.item \in queued /\ disk' = With(share.copy, {share.item}, share.at)
        BY <3>2 DEF ShareSaves, Write, BeingMarked
      <4> QED
        BY <4>1, <1>g, WithAt DEF Listed
    <3>3. CASE ShareCancelled
      BY <3>3, <1>g, WithAt DEF ShareCancelled, Write, Listed
    <3> QED
      BY <1>11, <3>1, <3>2, <3>3
  <2>2. share'.copy = Empty /\ items' = items
    BY <1>11 DEF ShareEnqueues, ShareSaves, ShareCancelled, ShareGoto, Closed
  <2> QED
    BY <2>1, <2>2, <1>g DEF Listed, Empty
<1>12. CASE \/ ShareOpens \/ ShareUploads \/ ShareMarks \/ ShareCancels \/ ShareCloses
            \/ \E i \in Filed : ShareWritesFile(i) \/ ShareResumes(i) \/ ShareClears(i)
  <2>1. share'.copy \in {Empty, disk} /\ UNCHANGED <<disk, items>>
    BY <1>12 DEF ShareOpens, ShareUploads, ShareMarks, ShareCancels, ShareCloses,
       ShareWritesFile, ShareResumes, ShareTriesAgain, ShareClears, ShareGoto, Closed
  <2> QED
    BY <2>1, <1>g DEF Listed, Empty
<1> QED
  BY <1>1, <1>2, <1>3, <1>4, <1>5, <1>6, <1>7, <1>8, <1>9, <1>10, <1>11, <1>12
     DEF Next, Drain, Extension

(* The app's own steps leave the extension where it is. *)
AppStep ==
  \/ ResetStale \/ Load \/ Kill \/ StartDrain \/ Drain \/ Remove \/ Requeue
  \/ \E i \in Items : Enqueue(i)

LEMMA AppLeavesShare == AppStep => UNCHANGED share
  BY DEF AppStep, Drain, ResetStale, Load, Kill, StartDrain, Claim, NothingPending, CheckNetwork,
     UploadSingleItem, Mark, Purge, Remove, Requeue, Enqueue, sharing

LEMMA Steps == [Next]_vars => AppStep \/ Extension \/ UNCHANGED vars
  BY DEF Next, AppStep

(* The bytes of an item go when the server has it or the user drops it.      *)
LEMMA FilesStay ==
  Typed /\ Kept /\ [Next]_vars => files \cap queued \subseteq files' \cup stored' \cup dropped'
                                  /\ files \ queued \subseteq files'
<1> SUFFICES ASSUME Typed, Kept, [Next]_vars
             PROVE  /\ files \cap queued \subseteq files' \cup stored' \cup dropped'
                    /\ files \ queued \subseteq files'
  OBVIOUS
<1>g. stored \subseteq stored'
  BY HistoriesGrow
<1>t. Filed \subseteq Items /\ files \subseteq Filed
  BY ItemsAssumption DEF Typed, TypeOK
<1> USE DEF app, sharing, server
<1>1. CASE UNCHANGED files
  BY <1>1
<1>2. CASE Mark
  <2>1. drain.item \in Items
    BY <1>2 DEF Mark, Goto, Typed, AtHand, Holding
  <2>2. CASE drain.at = "markDone"
    <3>1. drain.item \in stored
      BY <2>2 DEF Kept, Told
    <3>2. files' = files \ ({drain.item} \ In(items, {"none"}))
      BY <1>2, <2>2 DEF Mark
    <3>3. drain.item \notin In(items, {"none"}) => drain.item \in queued
      BY <2>1 DEF In, Kept, Listed
    <3> QED
      BY <3>1, <3>2, <3>3, <1>g
  <2>3. CASE drain.at # "markDone"
    BY <1>1, <1>2, <2>3 DEF Mark
  <2> QED
    BY <2>2, <2>3
<1>3. CASE Remove
  <2>1. PICK S \in {In(items, {"pending", "uploading"}), In(items, {"failed"})}
                     \cup {{i} : i \in Items \ In(items, {"none"})} :
          files' = files \ S /\ dropped' = dropped \cup S
    BY <1>3 DEF Remove
  <2>2. S \subseteq queued
    BY DEF In, Kept, Listed
  <2> QED
    BY <2>1, <2>2
<1>4. CASE ShareMarks
  <2>1. share.item \in Items
    BY <1>4, <1>t DEF ShareMarks, Typed, AtHand
  <2>2. CASE files' = files
    BY <1>1, <2>2
  <2>3. CASE files' # files
    <3>1. share.at = "markDone" /\ disk[share.item] # "none" /\ files' = files \ {share.item}
      BY <1>4, <2>3 DEF ShareMarks
    <3>2. share.item \in stored /\ share.item \in queued
      BY <2>1, <3>1 DEF Kept, Told, Listed
    <3> QED
      BY <3>1, <3>2, <1>g
  <2> QED
    BY <2>2, <2>3
<1>5. CASE ShareCancels
  <2>1. In(disk, {"pending"}) \subseteq queued
    BY DEF In, Kept, Listed
  <2> QED
    BY <1>5, <2>1 DEF ShareCancels
<1>6. CASE (\E i \in Items : Enqueue(i)) \/ (\E i \in Filed : ShareWritesFile(i))
  BY <1>6 DEF Enqueue, ShareWritesFile
<1>7. CASE \/ ResetStale \/ Load \/ Kill \/ StartDrain \/ Claim \/ NothingPending
           \/ CheckNetwork \/ UploadSingleItem \/ Purge \/ Requeue \/ UNCHANGED vars
           \/ ShareOpens \/ ShareTriesAgain \/ ShareEnqueues \/ ShareUploads \/ ShareSaves
           \/ ShareCancelled \/ ShareCloses
           \/ \E i \in Filed : ShareResumes(i) \/ ShareClears(i)
  BY <1>1, <1>7 DEF ResetStale, Load, Kill, StartDrain, Claim, NothingPending,
     CheckNetwork, UploadSingleItem, Purge, Requeue, vars, ShareOpens, ShareEnqueues,
     ShareUploads, ShareSaves, ShareCancelled, ShareCloses, ShareResumes, ShareTriesAgain,
     ShareClears
<1> QED
  BY <1>2, <1>3, <1>4, <1>5, <1>6, <1>7 DEF Next, Drain, Extension

LEMMA ExtensionPlaces ==
  ASSUME Typed, Extension
  PROVE  /\ share'.at = "enqueue" => \E i \in Filed : ShareWritesFile(i)
         /\ share'.at = "cancel" => ShareCancels
         /\ share'.at \in {"done", "failed"} => ShareMarks
<1>1. CASE \/ ShareOpens \/ ShareTriesAgain \/ ShareEnqueues \/ ShareUploads \/ ShareSaves
           \/ ShareCancelled \/ ShareCloses
           \/ \E i \in Filed : ShareResumes(i) \/ ShareClears(i)
  BY <1>1 DEF ShareOpens, ShareEnqueues, ShareUploads, ShareSaves, ShareCancelled,
     ShareCloses, ShareResumes, ShareTriesAgain, ShareClears, ShareGoto, Closed
<1>2. CASE ShareMarks \/ ShareCancels \/ \E i \in Filed : ShareWritesFile(i)
  BY <1>2 DEF ShareMarks, ShareCancels, ShareWritesFile, ShareGoto
<1> QED
  BY <1>1, <1>2 DEF Extension

LEMMA KeptStep == Typed /\ Kept /\ [Next]_vars => Kept'
<1> SUFFICES ASSUME Typed, Kept, [Next]_vars PROVE Kept'
  OBVIOUS
<1>g. queued \subseteq queued' /\ dropped \subseteq dropped'
  BY HistoriesGrow
<1>1. Told' /\ Listed'
  BY ToldStep, ListedStep DEF Kept
<1>2. CASE AppStep \/ UNCHANGED vars
  <2>1. UNCHANGED share
    BY <1>2, AppLeavesShare DEF vars, sharing
  <2>2. BeingCancelled' /\ BeingMarked'
    BY <1>g, <2>1 DEF Kept, BeingCancelled, BeingMarked
  <2>3. ASSUME share.at = "enqueue" PROVE share.item \in files' \ queued'
    <3>1. share.item \in files \ queued
      BY <2>3 DEF Kept, BeingEnqueued
    <3>2. share.item \in files'
      BY <3>1, FilesStay
    <3>3. ASSUME NEW i \in Items, Enqueue(i) PROVE share.item \notin queued'
      BY <2>3, <3>1, <3>3 DEF Enqueue, New
    <3>4. ASSUME \/ ResetStale \/ Load \/ Kill \/ StartDrain \/ Drain \/ Remove \/ Requeue
                 \/ UNCHANGED vars
          PROVE  share.item \notin queued'
      <4>1. queued' = queued
        BY <3>4 DEF ResetStale, Load, Kill, StartDrain, Drain, Claim, NothingPending,
           CheckNetwork, UploadSingleItem, Mark, Purge, Remove, Requeue, vars
      <4> QED
        BY <3>1, <4>1
    <3> QED
      BY <1>2, <3>2, <3>3, <3>4 DEF AppStep
  <2> QED
    BY <1>1, <2>1, <2>2, <2>3 DEF Kept, BeingEnqueued
<1>3. CASE Extension
  <2>1. BeingEnqueued'
    <3> SUFFICES ASSUME share'.at = "enqueue" PROVE share'.item \in files' \ queued'
      BY DEF BeingEnqueued
    <3>1. PICK i \in Filed : ShareWritesFile(i)
      BY <1>3, ExtensionPlaces
    <3> QED
      BY <3>1 DEF ShareWritesFile, ShareGoto
  <2>2. BeingCancelled'
    <3> SUFFICES ASSUME share'.at = "cancel" PROVE In(share'.copy, {"pending"}) \subseteq dropped'
      BY DEF BeingCancelled, In
    <3>1. ShareCancels
      BY <1>3, ExtensionPlaces
    <3> QED
      BY <3>1 DEF ShareCancels, ShareGoto
  <2>3. BeingMarked'
    <3> SUFFICES ASSUME share'.at \in {"done", "failed"} PROVE share'.item \in queued'
      BY DEF BeingMarked
    <3>1. ShareMarks
      BY <1>3, ExtensionPlaces
    <3>2. share.item \in Items /\ share'.item = share.item /\ disk[share.item] # "none"
      BY <3>1, ItemsAssumption DEF ShareMarks, ShareGoto, Typed, AtHand
    <3> QED
      BY <1>g, <3>2 DEF Kept, Listed
  <2> QED
    BY <1>1, <2>1, <2>2, <2>3 DEF Kept
<1> QED
  BY <1>2, <1>3, Steps

(* An item that waits goes on waiting, in the file and with its bytes, until *)
(* the server has it, the user drops it or a write runs over it.             *)
LEMMA WaitsOn ==
  ASSUME Typed, Kept, [Next]_vars, NEW i \in queued,
         i \notin stored' \cup dropped' \cup clobbered',
         disk[i] \in {"pending", "uploading", "failed"}
  PROVE  disk'[i] \in {"pending", "uploading", "failed"}
<1> USE DEF app, sharing, server
<1>i. i \in Items /\ drain \in [at : DrainPlaces, item : Items \cup {NoItem}]
  BY DEF Typed, TypeOK
<1>o. i \notin stored
  BY HistoriesGrow
<1>p. ASSUME NEW S, NEW s, PersistChanged(S, s) \/ Persist(With(items, S, s)),
             i \in S => s \in {"pending", "uploading", "failed"} \/ items[i] \notin {"pending", "uploading", "failed"}
      PROVE  disk'[i] \in {"pending", "uploading", "failed"}
  <2>1. CASE PersistChanged(S, s)
    BY <1>i, <1>p, <2>1, PersistChangedAt
  <2>2. CASE Persist(With(items, S, s))
    BY <1>i, <1>p, <2>2, WriteAt, WithAt DEF Persist
  <2> QED
    BY <1>p, <2>1, <2>2
<1>1. CASE ResetStale
  BY <1>1, <1>p DEF ResetStale
<1>2. CASE UNCHANGED disk
  BY <1>2
<1>3. CASE Claim
  <2>1. PICK j \in In(items, {"pending"}) : Persist(With(items, {j}, "uploading"))
    BY <1>3 DEF Claim
  <2> QED
    BY <2>1, <1>p
<1>4. CASE Mark
  <2>1. drain.at \in {"break", "cancelled", "markDone", "markFailed"}
    BY <1>4 DEF Mark, Goto
  <2>2. PersistChanged({drain.item} \ In(items, {"none"}), Outcome[drain.at])
    BY <1>4 DEF Mark
  <2>3. drain.item = i => Outcome[drain.at] \in {"pending", "failed"}
    <3>1. drain.item = i => drain.at # "markDone"
      BY <1>o DEF Kept, Told
    <3> QED
      BY <2>1, <3>1 DEF Outcome
  <2> QED
    BY <2>2, <2>3, <1>p
<1>5. CASE Purge
  BY <1>5, <1>i, <1>p DEF Purge, Purged, In
<1>6. ASSUME NEW j \in Items, Enqueue(j) PROVE disk'[i] \in {"pending", "uploading", "failed"}
  BY <1>6, <1>p DEF Enqueue
<1>7. CASE Remove
  <2>1. PICK S : Persist(With(items, S, "none")) /\ dropped' = dropped \cup S
    BY <1>7 DEF Remove
  <2> QED
    BY <2>1, <1>p
<1>8. CASE Requeue
  BY <1>8, <1>p DEF Requeue
<1>9. CASE ShareEnqueues
  <2>1. Write(share.copy, With(share.copy, {share.item}, "pending"))
    BY <1>9 DEF ShareEnqueues
  <2> QED
    BY <2>1, <1>i, WriteAt, WithAt
<1>10. CASE ShareSaves
  <2>1. Write(share.copy, With(share.copy, {share.item}, share.at))
    BY <1>10 DEF ShareSaves
  <2>2. share.item = i => share.at = "failed"
    BY <1>10, <1>o DEF ShareSaves, Kept, Told
  <2> QED
    BY <2>1, <2>2, <1>i, WriteAt, WithAt
<1>11. CASE ShareCancelled
  <2>1. Write(share.copy, With(share.copy, In(share.copy, {"pending"}), "none"))
    BY <1>11 DEF ShareCancelled
  <2>2. i \notin In(share.copy, {"pending"})
    BY <1>11, HistoriesGrow DEF ShareCancelled, Kept, BeingCancelled
  <2> QED
    BY <2>1, <2>2, <1>i, WriteAt, WithAt
<1>12. CASE \/ Load \/ Kill \/ StartDrain \/ NothingPending \/ CheckNetwork
            \/ UploadSingleItem \/ ShareOpens \/ ShareTriesAgain \/ ShareUploads
            \/ ShareMarks \/ ShareCancels \/ ShareCloses
            \/ (\E j \in Filed : ShareWritesFile(j) \/ ShareResumes(j) \/ ShareClears(j))
            \/ UNCHANGED vars
  BY <1>2, <1>12 DEF Load, Kill, StartDrain, NothingPending, CheckNetwork,
     UploadSingleItem, ShareOpens, ShareUploads, ShareMarks, ShareCancels, ShareCloses,
     ShareWritesFile, ShareResumes, ShareTriesAgain, ShareClears, vars
<1> QED
  BY <1>1, <1>3, <1>4, <1>5, <1>6, <1>7, <1>8, <1>9, <1>10, <1>11, <1>12
     DEF Next, Drain, Extension

(* What joins the list is pending, and has its bytes if it has a file. *)
LEMMA NewWaits ==
  ASSUME Typed, Kept, [Next]_vars, NEW i \in queued' \ queued
  PROVE  disk'[i] = "pending" /\ (i \in Filed => i \in files')
<1> USE DEF app, sharing, server
<1>1. ASSUME NEW j \in Items, Enqueue(j)
      PROVE  disk'[i] = "pending" /\ (i \in Filed => i \in files')
  <2>1. i = j
    BY <1>1 DEF Enqueue
  <2>2. disk' = With(items, {i}, "pending") /\ files' = files \cup ({i} \cap Filed)
    BY <1>1, <2>1 DEF Enqueue, Persist, Write
  <2>3. With(items, {i}, "pending")[i] = "pending"
    BY <2>1 DEF With
  <2> QED
    BY <2>2, <2>3
<1>2. CASE ShareEnqueues
  <2>1. i = share.item /\ share.item \in files /\ files' = files
    BY <1>2 DEF ShareEnqueues, Kept, BeingEnqueued
  <2>2. disk' = With(share.copy, {share.item}, "pending") /\ i \in Items
    BY <1>2, <2>1, ItemsAssumption DEF ShareEnqueues, Write, Typed, TypeOK
  <2>3. disk'[i] = "pending"
    BY <2>1, <2>2 DEF With
  <2> QED
    BY <2>1, <2>3
<1>3. CASE \/ ResetStale \/ Load \/ Kill \/ StartDrain \/ Drain \/ Remove \/ Requeue
           \/ UNCHANGED vars \/ ShareOpens \/ ShareTriesAgain \/ ShareUploads \/ ShareMarks
           \/ ShareSaves \/ ShareCancels \/ ShareCancelled \/ ShareCloses
           \/ \E j \in Filed : ShareWritesFile(j) \/ ShareResumes(j) \/ ShareClears(j)
  <2>1. queued' = queued
    BY <1>3 DEF ResetStale, Load, Kill, StartDrain, Drain, Claim, NothingPending,
       CheckNetwork, UploadSingleItem, Mark, Purge, Remove, Requeue, vars, ShareOpens,
       ShareUploads, ShareMarks, ShareSaves, ShareCancels, ShareCancelled, ShareCloses,
       ShareWritesFile, ShareResumes, ShareTriesAgain, ShareClears
  <2> QED
    BY <2>1
<1> QED
  BY <1>1, <1>2, <1>3 DEF Next, Extension

LEMMA NothingLostStep == Typed /\ Kept /\ NothingLost /\ [Next]_vars => NothingLost'
<1> SUFFICES ASSUME Typed, Kept, NothingLost, [Next]_vars,
                    NEW i \in queued' \ (stored' \cup dropped' \cup clobbered')
             PROVE  /\ disk'[i] \in {"pending", "uploading", "failed"}
                    /\ i \in Filed => i \in files'
  BY DEF NothingLost
<1>1. CASE i \in queued
  <2>1. i \notin stored \cup dropped \cup clobbered
    BY HistoriesGrow
  <2>2. disk[i] \in {"pending", "uploading", "failed"} /\ (i \in Filed => i \in files)
    BY <1>1, <2>1 DEF NothingLost
  <2> QED
    BY <1>1, <2>2, WaitsOn, FilesStay
<1>2. CASE i \notin queued
  BY <1>2, NewWaits
<1> QED
  BY <1>1, <1>2

(* No photo is lost that was not written over: what was enqueued and the    *)
(* server does not have is in the file's list with its bytes, for any       *)
(* number of kills, sessions and requests and in any order; but for what    *)
(* the user took off the list and what a process wrote over without having  *)
(* read it, which is the other's change, or the app's own list where it     *)
(* writes after a kill and before its first load.                           *)
THEOREM NoPhotoIsLost == Spec => []NothingLost
<1>1. Init => Typed /\ Kept /\ NothingLost
  BY TypedInit, KeptInit DEF Init, NothingLost
<1>2. Typed /\ Kept /\ NothingLost /\ [Next]_vars => (Typed /\ Kept /\ NothingLost)'
  BY TypedStep, KeptStep, NothingLostStep
<1> QED
  BY <1>1, <1>2, PTL DEF Spec

-----------------------------------------------------------------------------
(* Nothing stays hidden as uploading *)

HeldByDrain(i) == drain.at \in Holding /\ drain.item = i

(* Neither list shows an item as uploading that no drain holds.              *)
Held ==
  "reset" \notin boot =>
    \A i \in Items \ (stranded \cup clobbered) :
      items[i] = "uploading" \/ disk[i] = "uploading" => HeldByDrain(i)

(* What the drain holds is as uploading in memory as it is in the file.      *)
SeenByDrain ==
  \A i \in Items \ clobbered :
    HeldByDrain(i) /\ disk[i] = "uploading" => items[i] = "uploading"

HeldInv == Held /\ SeenByDrain

LEMMA HeldInit == Init => HeldInv
  BY DEF Init, HeldInv, Held, SeenByDrain, Empty, HeldByDrain, NoDrain, Holding

(* The extension shows nothing as uploading that was not. *)
LEMMA ExtensionHeld ==
  ASSUME Typed, HeldInv, Extension
  PROVE  HeldInv'
<1> USE DEF app
<1>1. UNCHANGED <<items, drain, boot, stranded>> /\ clobbered \subseteq clobbered'
  <2>1. clobbered \subseteq clobbered'
    BY HistoriesGrow DEF Next
  <2> QED
    BY <2>1 DEF Extension, ShareOpens, ShareEnqueues, ShareUploads, ShareMarks, ShareSaves,
       ShareCancels, ShareCancelled, ShareCloses, ShareWritesFile, ShareResumes,
       ShareTriesAgain, ShareClears
<1>2. ASSUME NEW i \in Items, i \notin clobbered', disk'[i] = "uploading"
      PROVE  disk[i] = "uploading"
  <2>1. CASE UNCHANGED disk
    BY <1>2, <2>1
  <2>2. CASE ShareEnqueues
    <3>1. Write(share.copy, With(share.copy, {share.item}, "pending"))
      BY <2>2 DEF ShareEnqueues
    <3> QED
      BY <3>1, <1>2, WriteAt, WithAt
  <2>3. CASE ShareSaves
    <3>1. Write(share.copy, With(share.copy, {share.item}, share.at)) /\ share.at # "uploading"
      BY <2>3 DEF ShareSaves
    <3> QED
      BY <3>1, <1>2, WriteAt, WithAt
  <2>4. CASE ShareCancelled
    <3>1. Write(share.copy, With(share.copy, In(share.copy, {"pending"}), "none"))
      BY <2>4 DEF ShareCancelled
    <3> QED
      BY <3>1, <1>2, WriteAt, WithAt
  <2>5. CASE \/ ShareOpens \/ ShareTriesAgain \/ ShareUploads \/ ShareMarks \/ ShareCancels
             \/ ShareCloses
             \/ \E j \in Filed : ShareWritesFile(j) \/ ShareResumes(j) \/ ShareClears(j)
    BY <2>1, <2>5 DEF ShareOpens, ShareUploads, ShareMarks, ShareCancels, ShareCloses,
       ShareWritesFile, ShareResumes, ShareTriesAgain, ShareClears
  <2> QED
    BY <2>2, <2>3, <2>4, <2>5 DEF Extension
<1> QED
  BY <1>1, <1>2 DEF HeldInv, Held, SeenByDrain, HeldByDrain

(* A write that claims nothing. *)
LEMMA PersistHeld ==
  ASSUME Typed, HeldInv, NEW S, NEW s, s # "uploading",
         PersistChanged(S, s) \/ Persist(With(items, S, s)),
         boot' = boot, stranded' = stranded,
         \A i \in Items : HeldByDrain(i)' <=> HeldByDrain(i)
  PROVE  HeldInv'
<1>1. CASE UNCHANGED <<disk, items, clobbered>>
  BY <1>1 DEF HeldInv, Held, SeenByDrain
<1>2. CASE Persist(With(items, S, s))
  <2>1. ASSUME NEW i \in Items
        PROVE  /\ disk'[i] = items'[i]
               /\ items'[i] = "uploading" => items[i] = "uploading"
               /\ i \in clobbered => i \in clobbered'
    BY <1>2, WithAt DEF Persist, Write
  <2> QED
    BY <2>1 DEF HeldInv, Held, SeenByDrain
<1> QED
  BY <1>1, <1>2 DEF PersistChanged

LEMMA DrainHeld ==
  ASSUME Typed, HeldInv, StartDrain \/ Drain
  PROVE  HeldInv'
<1> USE DEF app, sharing, server
<1>1. CASE StartDrain
  <2>1. \A i : ~HeldByDrain(i) /\ ~HeldByDrain(i)'
    BY <1>1 DEF StartDrain, Goto, HeldByDrain, Holding
  <2>2. items' = disk /\ UNCHANGED <<disk, boot, stranded, clobbered>>
    BY <1>1 DEF StartDrain
  <2> QED
    BY <2>1, <2>2 DEF HeldInv, Held, SeenByDrain
<1>2. CASE Claim
  <2>1. PICK i \in In(items, {"pending"}) :
          Goto("claim", "check", i) /\ Persist(With(items, {i}, "uploading"))
    BY <1>2 DEF Claim
  <2>2. UNCHANGED <<boot, stranded>>
    BY <1>2 DEF Claim
  <2>3. \A j : ~HeldByDrain(j)
    BY <2>1 DEF Goto, HeldByDrain, Holding
  <2>4. HeldByDrain(i)'
    BY <2>1 DEF Goto, HeldByDrain, Holding
  <2>5. ASSUME NEW j \in Items, j # i
        PROVE  /\ disk'[j] = items'[j] /\ items'[j] = items[j]
               /\ j \in clobbered => j \in clobbered'
    BY <2>1, <2>5, WithAt DEF Persist, Write
  <2>6. disk' = items'
    BY <2>1 DEF Persist, Write
  <2> QED
    BY <2>2, <2>3, <2>4, <2>5, <2>6 DEF HeldInv, Held, SeenByDrain
<1>3. CASE NothingPending
  <2>1. \A i : ~HeldByDrain(i) /\ ~HeldByDrain(i)'
    BY <1>3 DEF NothingPending, Goto, HeldByDrain, Holding
  <2>2. UNCHANGED <<disk, items, boot, stranded, clobbered>>
    BY <1>3 DEF NothingPending
  <2> QED
    BY <2>1, <2>2 DEF HeldInv, Held, SeenByDrain
<1>4. CASE CheckNetwork \/ UploadSingleItem
  <2>1. \A i : HeldByDrain(i) <=> HeldByDrain(i)'
    BY <1>4 DEF CheckNetwork, UploadSingleItem, Goto, HeldByDrain, Holding
  <2>2. UNCHANGED <<disk, items, boot, stranded, clobbered>>
    BY <1>4 DEF CheckNetwork, UploadSingleItem
  <2> QED
    BY <2>1, <2>2 DEF HeldInv, Held, SeenByDrain
<1>5. CASE Mark
  <2> DEFINE j == drain.item
  <2>1. /\ \A i : HeldByDrain(i) <=> i = j
        /\ \A i : ~HeldByDrain(i)'
        /\ Outcome[drain.at] # "uploading"
    BY <1>5 DEF Mark, Goto, HeldByDrain, Holding, Outcome
  <2>2. UNCHANGED <<boot, stranded>> /\ PersistChanged({j} \ In(items, {"none"}), Outcome[drain.at])
    BY <1>5 DEF Mark
  <2>3. CASE UNCHANGED <<disk, items, clobbered>> /\ items[j] = "none"
    BY <2>1, <2>2, <2>3 DEF HeldInv, Held, SeenByDrain
  <2>4. CASE Persist(With(items, {j}, Outcome[drain.at]))
    <3>1. ASSUME NEW i \in Items
          PROVE  /\ disk'[i] = items'[i]
                 /\ items'[i] = "uploading" => items[i] = "uploading" /\ i # j
                 /\ i \in clobbered => i \in clobbered'
      BY <2>1, <2>4, WithAt DEF Persist, Write
    <3> QED
      BY <2>1, <2>2, <3>1 DEF HeldInv, Held, SeenByDrain
  <2>5. j \in Items
    BY <1>5 DEF Mark, Goto, Typed, AtHand, Holding
  <2>6. CASE items[j] = "none"
    <3>1. {j} \ In(items, {"none"}) = {}
      BY <2>5, <2>6 DEF In
    <3> QED
      BY <2>2, <2>3, <2>6, <3>1 DEF PersistChanged
  <2>7. CASE items[j] # "none"
    <3>1. {j} \ In(items, {"none"}) = {j}
      BY <2>5, <2>7 DEF In
    <3> QED
      BY <2>2, <2>4, <3>1 DEF PersistChanged
  <2> QED
    BY <2>6, <2>7
<1>6. CASE Purge
  <2>1. \A i : HeldByDrain(i) <=> HeldByDrain(i)'
    BY <1>6 DEF Purge, Goto, HeldByDrain, Holding
  <2>2. UNCHANGED <<boot, stranded>> /\ PersistChanged(In(items, Purged), "none")
    BY <1>6 DEF Purge
  <2> QED
    BY <2>1, <2>2, PersistHeld
<1> QED
  BY <1>1, <1>2, <1>3, <1>4, <1>5, <1>6 DEF Drain

LEMMA ResetHeld ==
  ASSUME Typed, HeldInv, ResetStale
  PROVE  HeldInv'
<1>1. /\ PersistChanged(In(items, {"uploading"}), "pending")
      /\ stranded' = In(disk, {"uploading"}) \ In(items, {"uploading"})
      /\ drain' = drain
  BY DEF ResetStale
<1>2. \A i \in Items : items'[i] # "uploading"
  <2>1. CASE In(items, {"uploading"}) = {}
    BY <1>1, <2>1 DEF PersistChanged, In
  <2>2. CASE In(items, {"uploading"}) # {}
    BY <1>1, <2>2, WithAt DEF PersistChanged, Persist, In
  <2> QED
    BY <2>1, <2>2
<1>3. \/ disk' = items'
      \/ UNCHANGED <<disk, items, clobbered>> /\ In(items, {"uploading"}) = {}
  BY <1>1 DEF PersistChanged, Persist, Write
<1>4. \A i \in Items : disk'[i] = "uploading" => i \in stranded' /\ UNCHANGED <<disk, items, clobbered>>
  BY <1>1, <1>2, <1>3 DEF In
<1> QED
  BY <1>1, <1>2, <1>4 DEF HeldInv, Held, SeenByDrain, HeldByDrain

LEMMA HeldStep == Typed /\ HeldInv /\ [Next]_vars => HeldInv'
<1> SUFFICES ASSUME Typed, HeldInv, [Next]_vars PROVE HeldInv'
  OBVIOUS
<1> USE DEF app
<1>1. CASE Load
  BY <1>1 DEF Load, HeldInv, Held, SeenByDrain, HeldByDrain
<1>2. CASE Kill
  BY <1>2 DEF Kill, NoDrain, HeldInv, Held, SeenByDrain, HeldByDrain, Holding
<1>3. CASE Remove
  <2>1. PICK S : Persist(With(items, S, "none"))
    BY <1>3 DEF Remove
  <2>2. UNCHANGED <<boot, stranded, drain>>
    BY <1>3 DEF Remove
  <2> QED
    BY <2>1, <2>2, PersistHeld DEF HeldByDrain
<1>4. CASE Requeue
  <2>1. PICK S : PersistChanged(S, "pending")
    BY <1>4 DEF Requeue
  <2>2. UNCHANGED <<boot, stranded, drain>>
    BY <1>4 DEF Requeue
  <2> QED
    BY <2>1, <2>2, PersistHeld DEF HeldByDrain
<1>5. ASSUME NEW i \in Items, Enqueue(i) PROVE HeldInv'
  <2>1. Persist(With(items, {i}, "pending")) /\ UNCHANGED <<boot, stranded, drain>>
    BY <1>5 DEF Enqueue
  <2> QED
    BY <2>1, PersistHeld DEF HeldByDrain
<1>6. CASE UNCHANGED vars
  BY <1>6 DEF vars, HeldInv, Held, SeenByDrain, HeldByDrain
<1> QED
  BY <1>1, <1>2, <1>3, <1>4, <1>5, <1>6, ResetHeld, DrainHeld, ExtensionHeld DEF Next

(* Once the app has reset what its predecessor left, an item shown as       *)
(* uploading is the one that the drain holds, for any number of kills,      *)
(* sessions and requests; but for what that reset did not find and what a   *)
(* process wrote over without having read it.                               *)
THEOREM NothingStaysClaimed == Spec => []UploadingIsHeld
<1>1. Typed /\ HeldInv => UploadingIsHeld
  BY DEF HeldInv, Held, HeldByDrain, UploadingIsHeld, In
<1>2. Typed /\ HeldInv /\ [Next]_vars => (Typed /\ HeldInv)'
  BY TypedStep, HeldStep
<1> QED
  BY <1>1, <1>2, TypedInit, HeldInit, PTL DEF Spec
=============================================================================
