---------------------------- MODULE GalleryProofs ----------------------------
(***************************************************************************)
(* A gallery has at most one cover, loses it only when it is asked to,       *)
(* refuses a new one only in a race and deadlocks in one way only, for any   *)
(* number of requests and photos.                                          *)
(*                                                                         *)
(* The argument: row locks are taken only when they are free (LocksCover),   *)
(* so a transaction that got past the index goes on to exclude every other  *)
(* cover, those it has demoted by its locks and those that would be written *)
(* by the index (Alone), until it commits.                                 *)
(* A promotion that nobody has met since it began has looked for, and       *)
(* locked, every other cover (Undisturbed), so the index lets it pass.      *)
(* And since the rows a promotion locks before its own photo are covers      *)
(* (Holding), of which there is one, circles of waiting are short.          *)
(***************************************************************************)
EXTENDS Gallery, TLAPS

USE DEF At, Op, Image, Promotes

Writing == {"found", "demoting", "demoted", "owned", "written"}

\* A photo is added by one request, and does not exist before that ends.
AddedOnce ==
  /\ \A q, r \in Requests :
        Op(q) = "add" /\ Op(r) = "add" /\ Image(q) = Image(r) => q = r
  /\ \A r \in Requests :
        Op(r) = "add" /\ pc[r] # "done" => image[Image(r)] = "none"

\* Who adds and updates photos, and who demotes covers.
Courses ==
  \A r \in Requests : /\ pc[r] \in Writing => Op(r) \in {"add", "update"}
                      /\ pc[r] \in {"found", "demoting"} => Promotes(r)

\* A locked row is that of a photo being added, or exists and is locked for
\* what its holder does.
LocksCover ==
  /\ \A r \in Requests : pc[r] \in {"owned", "written"} => lock[Image(r)] = r
  /\ \A i \in Images : lock[i] # NoOne =>
        \/ image[i] # "none" /\ (i # Image(lock[i]) => Promotes(lock[i]))
        \/ /\ Op(lock[i]) = "add" /\ Image(lock[i]) = i
           /\ pc[lock[i]] \in {"owned", "written"}

\* A promotion that passed the index is the only one, and has every other cover.
Alone ==
  /\ \A r \in Requests : pc[r] = "written" /\ Promotes(r) => OtherCovers(r) = {}
  /\ \A q, r \in Requests :
        /\ pc[q] = "written" /\ Promotes(q)
        /\ pc[r] = "written" /\ Promotes(r)
        => q = r

IInv ==
  /\ TypeOK
  /\ AddedOnce
  /\ Courses
  /\ LocksCover
  /\ Alone
  /\ AtMostOneCover

-----------------------------------------------------------------------------

LEMMA Initially == Init => IInv
<1> SUFFICES ASSUME Init
             PROVE  IInv
  OBVIOUS
<1> USE DEF Init
<1>1. TypeOK
  BY GalleryAssumption DEF TypeOK, Stages, Replies
<1>2. AddedOnce
  BY GalleryAssumption DEF AddedOnce
<1>3. Courses /\ LocksCover /\ Alone
  BY DEF Courses, Writing, LocksCover, Alone
<1>4. AtMostOneCover
  BY GalleryAssumption DEF AtMostOneCover, Covers
<1> QED
  BY <1>1, <1>2, <1>3, <1>4 DEF IInv

LEMMA GotoTypes ==
  ASSUME TypeOK, NEW r \in Requests, NEW stage \in Stages, Goto(r, stage)
  PROVE  /\ pc' \in [Requests -> Stages] /\ pc' = [pc EXCEPT ![r] = stage]
         /\ crowded' \in SUBSET Requests
  BY DEF TypeOK, Goto, InFlight

LEMMA EndTypes ==
  ASSUME TypeOK, NEW r \in Requests, NEW answer \in Replies, End(r, answer),
         image' \in [Images -> ImageStates], translated' \in SUBSET Images
  PROVE  TypeOK'
<1>1. pc' \in [Requests -> Stages] /\ crowded' \in SUBSET Requests
  BY GotoTypes DEF End, Stages
<1> QED
  BY <1>1 DEF TypeOK, End

\* A statement that writes no row leaves the committed photos alone, and takes
\* only free locks.
LEMMA StatementKeeps ==
  ASSUME IInv, NEW r \in Requests,
         \/ BeginAdd(r) \/ BeginUpdate(r) \/ Demote(r) \/ LockDemoted(r)
         \/ InsertOwn(r) \/ UpdateOwn(r) \/ Index(r)
         \/ At(r, "translate", "received") /\ Move(r, "checked")
  PROVE  IInv'
<1> USE DEF IInv, Stages
<1>1. PICK stage \in Stages :
        /\ Goto(r, stage)
        /\ stage \in Writing => Op(r) \in {"add", "update"}
        /\ stage \in {"found", "demoting"} => Promotes(r)
        /\ stage \in {"owned", "written"} => lock'[Image(r)] = r
        /\ stage = "written" /\ Promotes(r) => Blockers(r) = {} /\ OtherCovers(r) = {}
        /\ stage # "done"
  BY DEF BeginAdd, BeginUpdate, Demote, LockDemoted, InsertOwn, UpdateOwn, Index, Move,
         Courses, Writing, LocksCover, TypeOK, Input
<1>2. pc \in [Requests -> Stages] /\ pc' = [pc EXCEPT ![r] = stage] /\ pc[r] # "done"
  BY <1>1, GotoTypes
  DEF BeginAdd, BeginUpdate, Demote, LockDemoted, InsertOwn, UpdateOwn, Index, TypeOK
<1>3. UNCHANGED <<req, image, translated, reply>>
  BY DEF BeginAdd, BeginUpdate, Demote, LockDemoted, InsertOwn, UpdateOwn, Index, Move
<1>4. lock' \in [Images -> Requests \cup {NoOne}] /\ target' \in [Requests -> SUBSET Images]
  BY DEF BeginAdd, BeginUpdate, Demote, LockDemoted, InsertOwn, UpdateOwn, Index, Move,
         TypeOK, Input, Covers
<1>5. TypeOK'
  BY <1>1, <1>3, <1>4, GotoTypes DEF TypeOK
<1>6. AddedOnce' /\ Courses' /\ AtMostOneCover'
  BY <1>1, <1>2, <1>3 DEF AddedOnce, Courses, Writing, AtMostOneCover, Covers
<1>7. \A i \in Images : lock'[i] # lock[i] =>
        /\ lock[i] = NoOne /\ lock'[i] = r
        /\ \/ image[i] # "none" /\ (i # Image(r) => Promotes(r))
           \/ Op(r) = "add" /\ Image(r) = i /\ stage = "owned"
  <2>1. CASE InsertOwn(r)
    <3>1. image[Image(r)] = "none" /\ lock[Image(r)] \in Requests \cup {NoOne}
          /\ Image(r) \in Images
      BY <2>1 DEF InsertOwn, AddedOnce, TypeOK, Input
    <3>2. lock[Image(r)] = NoOne
      BY <2>1, <3>1 DEF InsertOwn, AddedOnce, LocksCover
    <3>3. stage = "owned" /\ lock' = [lock EXCEPT ![Image(r)] = r]
      BY <1>2, <2>1 DEF InsertOwn, Goto
    <3> QED
      BY <2>1, <3>1, <3>2, <3>3 DEF InsertOwn, TypeOK
  <2>2. CASE LockDemoted(r)
    BY <2>2 DEF LockDemoted, Courses, Covers, TypeOK
  <2>3. CASE UpdateOwn(r)
    BY <2>3 DEF UpdateOwn, TypeOK
  <2>4. CASE ~(InsertOwn(r) \/ LockDemoted(r) \/ UpdateOwn(r))
    BY <2>4 DEF BeginAdd, BeginUpdate, Demote, Index, Move
  <2> QED
    BY <2>1, <2>2, <2>3, <2>4
<1>8. LocksCover'
  <2>1. ASSUME NEW q \in Requests, pc'[q] \in {"owned", "written"}
        PROVE  lock'[Image(q)] = q
    <3>1. CASE q = r
      BY <1>1, <1>2, <2>1, <3>1
    <3>2. CASE q # r
      <4>1. lock[Image(q)] = q /\ Image(q) \in Images
        BY <1>2, <2>1, <3>2 DEF LocksCover, TypeOK, Input
      <4> QED
        BY <1>7, <3>2, <4>1, GalleryAssumption
    <3> QED
      BY <3>1, <3>2
  <2>2. ASSUME NEW i \in Images, lock'[i] # NoOne
        PROVE  \/ image[i] # "none" /\ (i # Image(lock'[i]) => Promotes(lock'[i]))
               \/ /\ Op(lock'[i]) = "add" /\ Image(lock'[i]) = i
                  /\ pc'[lock'[i]] \in {"owned", "written"}
    <3>1. CASE lock'[i] = lock[i]
      <4>1. pc[lock[i]] \in {"owned", "written"} => pc'[lock[i]] \in {"owned", "written"}
        <5>1. pc[r] \in {"owned", "written"} => stage = "written"
          BY <1>2 DEF BeginAdd, BeginUpdate, Demote, LockDemoted, InsertOwn, UpdateOwn,
                      Index, Move, Goto
        <5> QED
          BY <1>2, <5>1
      <4> QED
        BY <2>2, <3>1, <4>1 DEF LocksCover
    <3>2. CASE lock'[i] # lock[i]
      BY <1>2, <1>7, <3>2
    <3> QED
      BY <3>1, <3>2
  <2> QED
    BY <1>3, <2>1, <2>2 DEF LocksCover
<1>9. Alone'
  <2>1. Covers' = Covers
    BY <1>3 DEF Covers
  <2>2. \A q \in Requests : OtherCovers(q)' \subseteq OtherCovers(q)
    BY <1>7, <2>1, GalleryAssumption DEF OtherCovers, Covers
  <2>3. \A q \in Requests : pc'[q] = "written" /\ q # r => pc[q] = "written"
    BY <1>2
  <2>4. pc'[r] = "written" /\ Promotes(r)
          => /\ OtherCovers(r) = {}
             /\ \A q \in Requests : pc[q] = "written" /\ Promotes(q) => q = r
    BY <1>1, <1>2 DEF Blockers
  <2> QED
    BY <1>3, <2>2, <2>3, <2>4 DEF Alone
<1> QED
  BY <1>5, <1>6, <1>8, <1>9

\* A transaction that ends gives back its locks.  What it leaves of the photos
\* must keep those that others have locked or are adding, and only a promotion
\* that passed the index may leave a cover that was none.
LEMMA EndKeeps ==
  ASSUME IInv, NEW r \in Requests, NEW answer \in Replies, End(r, answer),
         pc[r] # "done",
         image' \in [Images -> ImageStates], translated' \in SUBSET Images,
         \A i \in Images : lock[i] \notin {r, NoOne} => image'[i] = image[i],
         \A i \in Images : image[i] = "none" /\ image'[i] # "none"
                            => Op(r) = "add" /\ Image(r) = i,
         \/ Covers' \subseteq Covers
         \/ pc[r] = "written" /\ Promotes(r) /\ Covers' \subseteq {Image(r)}
  PROVE  IInv'
<1> USE DEF IInv, Stages
<1>1. TypeOK'
  BY EndTypes
<1>2. /\ pc \in [Requests -> Stages] /\ pc' = [pc EXCEPT ![r] = "done"] /\ req' = req
      /\ lock' = [i \in Images |-> IF lock[i] = r THEN NoOne ELSE lock[i]]
      /\ lock \in [Images -> Requests \cup {NoOne}]
      /\ \A q \in Requests : Image(q) \in Images
  BY DEF End, Goto, TypeOK, Input
<1>3. AddedOnce'
  BY <1>2 DEF AddedOnce
<1>4. Courses'
  BY <1>2 DEF Courses, Writing
<1>5. LocksCover'
  <2>1. \A q \in Requests : pc'[q] \in {"owned", "written"} => lock'[Image(q)] = q
    BY <1>2 DEF LocksCover
  <2>2. \A i \in Images : lock'[i] # NoOne =>
          /\ lock'[i] = lock[i] /\ lock[i] # r /\ image'[i] = image[i]
          /\ lock[i] \in Requests /\ pc'[lock[i]] = pc[lock[i]]
    BY <1>2
  <2> QED
    BY <1>2, <2>1, <2>2 DEF LocksCover
<1>6. \A q \in Requests : pc'[q] = "written" => pc[q] = "written" /\ q # r
  BY <1>2
<1>7. CASE Covers' \subseteq Covers
  <2>1. AtMostOneCover'
    BY <1>7 DEF AtMostOneCover
  <2>2. \A q \in Requests \ {r} : OtherCovers(q)' \subseteq OtherCovers(q)
    BY <1>2, <1>7, GalleryAssumption DEF OtherCovers, Covers
  <2>3. Alone'
    BY <1>2, <1>6, <2>2 DEF Alone
  <2> QED
    BY <1>1, <1>3, <1>4, <1>5, <2>1, <2>3
<1>8. CASE pc[r] = "written" /\ Promotes(r) /\ Covers' \subseteq {Image(r)}
  <2>1. AtMostOneCover'
    BY <1>8, <1>2 DEF AtMostOneCover
  <2>2. \A q \in Requests : ~(pc'[q] = "written" /\ Promotes(q))
    BY <1>6, <1>8 DEF Alone
  <2>3. Alone'
    BY <1>2, <2>2 DEF Alone
  <2> QED
    BY <1>1, <1>3, <1>4, <1>5, <2>1, <2>3
<1> QED
  BY <1>7, <1>8

\* What a COMMIT leaves of the photos.
LEMMA CommitEffect ==
  ASSUME IInv, NEW r \in Requests, Commit(r)
  PROVE  /\ image' \in [Images -> ImageStates]
         /\ \A i \in Images : lock[i] \notin {r, NoOne} => image'[i] = image[i]
         /\ \A i \in Images : image[i] = "none" /\ image'[i] # "none"
                            => Op(r) = "add" /\ Image(r) = i
         /\ \/ Covers' \subseteq Covers /\ ~Promotes(r)
            \/ Promotes(r) /\ Covers' = {Image(r)}
         /\ ~Promotes(r) => \A i \in Images \ {Image(r)} : image'[i] = image[i]
         /\ image'[Image(r)] = Written(r)
<1> USE DEF IInv
<1>1. /\ image \in [Images -> ImageStates] /\ Image(r) \in Images
      /\ lock \in [Images -> Requests \cup {NoOne}]
      /\ image' = [i \in Images |-> IF i = Image(r) THEN Written(r)
                                ELSE IF lock[i] = r THEN "plain" ELSE image[i]]
      /\ lock[Image(r)] = r /\ r # NoOne
  BY GalleryAssumption DEF Commit, TypeOK, Input, LocksCover
<1>2. Written(r) \in ImageStates
  BY <1>1 DEF Written, ImageStates
<1>3. ~Promotes(r) => Written(r) # "cover" \/ image[Image(r)] = "cover"
  BY DEF Written
<1>4. Promotes(r) => Written(r) = "cover"
  BY DEF Written
<1>5. \A i \in Images \ {Image(r)} : lock[i] = r => image[i] # "none" /\ Promotes(r)
  BY <1>1 DEF LocksCover
<1>6. image[Image(r)] = "none" => Op(r) = "add"
  BY <1>1 DEF LocksCover
<1>7. ~Promotes(r) => \A i \in Images \ {Image(r)} : image'[i] = image[i]
  BY <1>1, <1>5
<1>8. CASE Promotes(r)
  <2>1. \A i \in Images : image[i] = "cover" => lock[i] = r
    BY <1>8 DEF Commit, Alone, OtherCovers, Covers
  <2>2. Covers' = {Image(r)}
    BY <1>1, <1>4, <1>8, <2>1 DEF Covers
  <2> QED
    BY <1>1, <1>2, <1>5, <1>6, <1>8, <2>2 DEF ImageStates
<1>9. CASE ~Promotes(r)
  <2>1. Covers' \subseteq Covers
    BY <1>1, <1>3, <1>7, <1>9 DEF Covers
  <2> QED
    BY <1>1, <1>2, <1>5, <1>6, <1>7, <1>9, <2>1 DEF ImageStates
<1> QED
  BY <1>8, <1>9

\* An update that finds its photo deleted has only demoted covers.
LEMMA NothingEffect ==
  ASSUME IInv, NEW r \in Requests, UpdateNothing(r)
  PROVE  /\ image' \in [Images -> ImageStates]
         /\ Covers' \subseteq Covers
         /\ \A i \in Images : lock[i] \notin {r, NoOne} => image'[i] = image[i]
         /\ \A i \in Images : image[i] = "none" => image'[i] = "none"
         /\ ~Promotes(r) => image' = image
<1>1. /\ image \in [Images -> ImageStates] /\ r # NoOne
      /\ lock \in [Images -> Requests \cup {NoOne}]
      /\ image' = [i \in Images |-> IF lock[i] = r THEN "plain" ELSE image[i]]
      /\ image[Image(r)] = "none" /\ Op(r) = "update"
  BY GalleryAssumption DEF UpdateNothing, IInv, TypeOK
<1>2. \A i \in Images : lock[i] = r => image[i] # "none" /\ (i # Image(r) => Promotes(r))
  BY <1>1 DEF IInv, LocksCover
<1>3. image' \in [Images -> ImageStates]
  BY <1>1 DEF ImageStates
<1>4. Covers' \subseteq Covers
  BY <1>1 DEF Covers
<1>5. ~Promotes(r) => image' = image
  BY <1>1, <1>2
<1> QED
  BY <1>1, <1>2, <1>3, <1>4, <1>5

LEMMA DeleteEffect ==
  ASSUME IInv, NEW r \in Requests, Delete(r)
  PROVE  /\ image' \in [Images -> ImageStates]
         /\ Covers' \subseteq Covers
         /\ \A i \in Images : lock[i] \notin {r, NoOne} => image'[i] = image[i]
         /\ \A i \in Images : i # Image(r) => image'[i] = image[i]
         /\ \A i \in Images : image[i] = "none" => image'[i] = "none"
<1>1. /\ image \in [Images -> ImageStates] /\ Image(r) \in Images
      /\ image' = [image EXCEPT ![Image(r)] = "none"]
      /\ image[Image(r)] # "none" => lock[Image(r)] = NoOne
  BY DEF Delete, IInv, TypeOK, Input
<1> QED
  BY <1>1 DEF ImageStates, Covers

LEMMA NextKeepsIInv == IInv /\ [Next]_vars => IInv'
<1> SUFFICES ASSUME IInv, [Next]_vars
             PROVE  IInv'
  OBVIOUS
<1> USE DEF Replies
<1>0. TypeOK
  BY DEF IInv
<1>1. ASSUME NEW r \in Requests, NEW answer \in Replies, Rollback(r, answer),
             pc[r] # "done"
      PROVE  IInv'
  <2>1. UNCHANGED <<image, translated>> /\ Covers' = Covers
    BY <1>1 DEF Rollback, Covers
  <2> QED
    BY <1>0, <1>1, <2>1, EndKeeps DEF Rollback, TypeOK
<1>2. ASSUME NEW r \in Requests, Step(r) \/ Crash(r)
      PROVE  IInv'
  <2>1. CASE \/ BeginAdd(r) \/ BeginUpdate(r) \/ Demote(r) \/ LockDemoted(r)
             \/ InsertOwn(r) \/ UpdateOwn(r) \/ Index(r)
    BY <2>1, StatementKeeps
  <2>2. CASE \/ UpdateNotFound(r) \/ IndexRefuses(r) \/ DeleteRefused(r) \/ Crash(r)
    BY <1>1, <2>2 DEF UpdateNotFound, IndexRefuses, DeleteRefused, Crash, InFlight
  <2>3. CASE Victim(r)
    <3>1. pc[r] # "done"
      BY <2>3 DEF Victim, WaitsFor
    <3> QED
      BY <1>1, <2>3, <3>1 DEF Victim
  <2>4. CASE FindForAlt(r)
    BY <1>1, <2>4, StatementKeeps DEF FindForAlt
  <2>5. CASE Commit(r)
    <3>1. PICK answer \in {"ok", "lost"} : End(r, answer)
      BY <2>5 DEF Commit
    <3>2. translated' \in SUBSET Images /\ pc[r] = "written"
      BY <1>0, <2>5 DEF Commit, TypeOK
    <3> QED
      BY <2>5, <3>1, <3>2, CommitEffect, EndKeeps
  <2>6. CASE UpdateNothing(r)
    <3>1. translated' \in SUBSET Images /\ pc[r] # "done" /\ End(r, "ok")
      BY <1>0, <2>6 DEF UpdateNothing, TypeOK
    <3> QED
      BY <2>6, <3>1, NothingEffect, EndKeeps
  <2>7. CASE Delete(r)
    <3>1. PICK answer \in {"ok", "notFound"} : End(r, answer)
      BY <2>7 DEF Delete
    <3>2. translated' \in SUBSET Images /\ pc[r] # "done"
      BY <1>0, <2>7 DEF Delete, TypeOK
    <3> QED
      BY <2>7, <3>1, <3>2, DeleteEffect, EndKeeps
  <2>8. CASE UpsertAlt(r)
    <3>1. PICK answer \in {"ok", "conflict"} : End(r, answer)
      BY <2>8 DEF UpsertAlt
    <3>2. /\ translated' \in SUBSET Images /\ pc[r] # "done"
          /\ image' = image /\ image \in [Images -> ImageStates] /\ Covers' = Covers
      BY <1>0, <2>8 DEF UpsertAlt, TypeOK, Input, Covers
    <3> QED
      BY <3>1, <3>2, EndKeeps
  <2> QED
    BY <1>2, <2>1, <2>2, <2>3, <2>4, <2>5, <2>6, <2>7, <2>8 DEF Step
<1>3. CASE UNCHANGED vars
  BY <1>3
  DEF vars, requestVars, IInv, TypeOK, AddedOnce, Courses, LocksCover, Alone,
      OtherCovers, Covers, AtMostOneCover
<1> QED
  BY <1>2, <1>3 DEF Next, Idle

\* The tables and the requests keep their types.
THEOREM TypeCorrect == Spec => []TypeOK
<1>1. IInv => TypeOK
  BY DEF IInv
<1> QED
  BY <1>1, Initially, NextKeepsIInv, PTL DEF Spec

\* However admins race to set is_cover, the gallery has at most one cover.
THEOREM OneCover == Spec => []AtMostOneCover
<1>1. IInv => AtMostOneCover
  BY DEF IInv
<1> QED
  BY <1>1, Initially, NextKeepsIInv, PTL DEF Spec

-----------------------------------------------------------------------------

LEMMA CoverLost ==
  ASSUME IInv, [Next]_vars, Covers # {}, Covers' = {}
  PROVE  \E r \in Requests :
          /\ pc[r] # "done" /\ pc'[r] = "done"
          /\ \/ Op(r) = "delete" /\ image[Image(r)] = "cover"
             \/ Op(r) = "update" /\ req[r].cover = "false" /\ image[Image(r)] = "cover"
             \/ Op(r) = "update" /\ Promotes(r) /\ image[Image(r)] = "none"
<1>0. pc \in [Requests -> Stages] /\ req \in [Requests -> Input]
  BY DEF IInv, TypeOK
<1>1. image' # image
  BY DEF Covers
<1>2. PICK r \in Requests : Commit(r) \/ UpdateNothing(r) \/ Delete(r)
  BY <1>1
  DEF Next, Idle, vars, Step, Crash, Victim, Rollback, UpdateNotFound, IndexRefuses,
      DeleteRefused, FindForAlt, UpsertAlt, BeginAdd, BeginUpdate, Demote,
      LockDemoted, InsertOwn, UpdateOwn, Index, Move
<1>3. pc[r] # "done" /\ pc'[r] = "done"
  BY <1>0, <1>2 DEF Commit, UpdateNothing, Delete, End, Goto
<1>4. PICK i \in Images : image[i] = "cover" /\ image'[i] # "cover"
  BY DEF Covers
<1>5. CASE Commit(r)
  <2>1. ~Promotes(r)
    BY <1>5, CommitEffect
  <2>2. i = Image(r)
    BY <1>4, <1>5, <2>1, CommitEffect
  <2>3. Op(r) \in {"add", "update"}
    BY <1>5 DEF Commit, IInv, Courses, Writing
  <2>4. Op(r) = "update"
    BY <1>3, <1>4, <2>2, <2>3 DEF IInv, AddedOnce
  <2>5. req[r].cover # "unset"
    BY <1>4, <1>5, <2>1, <2>2, <2>4, CommitEffect DEF Written
  <2>6. req[r].cover = "false"
    BY <1>0, <2>1, <2>5 DEF Input
  <2> QED
    BY <1>3, <1>4, <2>2, <2>4, <2>6
<1>6. CASE UpdateNothing(r)
  <2>1. Promotes(r)
    BY <1>1, <1>6, NothingEffect
  <2> QED
    BY <1>3, <1>6, <2>1 DEF UpdateNothing
<1>7. CASE Delete(r)
  <2>1. i = Image(r)
    BY <1>4, <1>7, DeleteEffect
  <2> QED
    BY <1>3, <1>4, <1>7, <2>1 DEF Delete
<1> QED
  BY <1>2, <1>5, <1>6, <1>7

\* Nothing takes the cover of a gallery away but a request that says so, or a
\* promotion whose photo was deleted under it.
THEOREM CoverStays == Spec => CoverKept
<1>1. IInv /\ [Next]_vars =>
        [Covers # {} /\ Covers' = {} =>
           \E r \in Requests :
              /\ pc[r] # "done" /\ pc'[r] = "done"
              /\ \/ Op(r) = "delete" /\ image[Image(r)] = "cover"
                 \/ Op(r) = "update" /\ req[r].cover = "false" /\ image[Image(r)] = "cover"
                 \/ Op(r) = "update" /\ Promotes(r) /\ image[Image(r)] = "none"]_vars
  BY CoverLost
<1> QED
  BY <1>1, Initially, NextKeepsIInv, PTL DEF Spec, CoverKept

-----------------------------------------------------------------------------
(* Refusals.                                                               *)

\* What a promotion that nobody disturbs relies on: the locks are its own, and
\* it has looked for every other cover.
Undisturbed ==
  \A r \in InFlight \ crowded :
     /\ InFlight = {r}
     /\ pc[r] = "demoting" => target[r] = Covers \ {Image(r)}
     /\ pc[r] \in {"demoted", "owned", "written"} /\ Promotes(r)
          => \A i \in Covers \ {Image(r)} : lock[i] = r

\* Locks are held from the demotion on, at first on other photos only.
Holders ==
  /\ \A r \in Requests : Image(r) \notin target[r]
  /\ \A i \in Images : lock[i] # NoOne =>
        /\ pc[lock[i]] \in {"demoted", "owned", "written"}
        /\ pc[lock[i]] = "demoted" => i # Image(lock[i])

RaceInv == Undisturbed /\ Holders /\ RefusedOnlyInRace

LEMMA InitRace == Init => RaceInv
<1> SUFFICES ASSUME Init
             PROVE  RaceInv
  OBVIOUS
<1>1. Undisturbed /\ RefusedOnlyInRace
  BY DEF Init, Undisturbed, InFlight, RefusedOnlyInRace
<1>2. Holders
  BY DEF Init, Holders
<1> QED
  BY <1>1, <1>2 DEF RaceInv

\* Whoever is still undisturbed after a step has taken it, alone.
LEMMA GotoAlone ==
  ASSUME TypeOK, NEW q \in Requests, NEW stage \in Stages \ {"received"}, Goto(q, stage),
         pc[q] # "done"
  PROVE  /\ crowded \subseteq crowded'
         /\ \A r \in InFlight' \ crowded' :
              /\ r = q /\ stage # "done" /\ InFlight' = {q}
              /\ pc[q] = "received" \/ q \in InFlight \ crowded
         /\ q \in InFlight /\ q \notin crowded' => InFlight = {q} /\ q \notin crowded
<1>1. /\ pc \in [Requests -> Stages] /\ pc' = [pc EXCEPT ![q] = stage]
      /\ crowded' = IF InFlight \cup {q} = {q} THEN crowded
                    ELSE crowded \cup InFlight \cup {q}
  BY DEF Goto, TypeOK
<1>2. InFlight' \subseteq InFlight \cup {q} /\ (stage = "done" => q \notin InFlight')
  BY <1>1 DEF InFlight
<1>3. crowded \subseteq crowded'
  BY <1>1
<1>4. ASSUME NEW r \in InFlight' \ crowded'
      PROVE  /\ r = q /\ stage # "done" /\ InFlight' = {q}
             /\ pc[q] = "received" \/ q \in InFlight \ crowded
  <2>1. InFlight \cup {q} = {q}
    BY <1>1, <1>2, <1>4
  <2>2. r = q /\ InFlight' = {q} /\ stage # "done" /\ q \notin crowded
    BY <1>2, <1>3, <1>4, <2>1
  <2> QED
    BY <2>2 DEF InFlight
<1>5. q \in InFlight /\ q \notin crowded' => InFlight = {q} /\ q \notin crowded
  BY <1>1
<1> QED
  BY <1>3, <1>4, <1>5

\* A statement that writes no row takes no more than free locks, and only a
\* demotion looks for covers.
LEMMA StatementKeepsRace ==
  ASSUME IInv, RaceInv, NEW q \in Requests,
         \/ BeginAdd(q) \/ BeginUpdate(q) \/ Demote(q) \/ LockDemoted(q)
         \/ InsertOwn(q) \/ UpdateOwn(q) \/ Index(q)
         \/ At(q, "translate", "received") /\ Move(q, "checked")
  PROVE  RaceInv'
<1> USE DEF Stages
<1>0. /\ TypeOK /\ pc \in [Requests -> Stages] /\ lock \in [Images -> Requests \cup {NoOne}]
      /\ target \in [Requests -> SUBSET Images] /\ Image(q) \in Images
      /\ q # NoOne
  BY GalleryAssumption DEF IInv, TypeOK, Input
<1>1. UNCHANGED <<req, image, reply>> /\ Covers' = Covers
  BY DEF BeginAdd, BeginUpdate, Demote, LockDemoted, InsertOwn, UpdateOwn, Index, Move, Covers
<1>2. PICK stage \in Stages \ {"received", "done"} : Goto(q, stage)
  BY DEF BeginAdd, BeginUpdate, Demote, LockDemoted, InsertOwn, UpdateOwn, Index, Move
<1>3. pc[q] # "done" /\ pc' = [pc EXCEPT ![q] = stage]
  BY <1>2 DEF BeginAdd, BeginUpdate, Demote, LockDemoted, InsertOwn, UpdateOwn, Index, Goto
<1>4. /\ crowded \subseteq crowded'
      /\ \A r \in InFlight' \ crowded' :
           /\ r = q /\ InFlight' = {q}
           /\ pc[q] = "received" \/ q \in InFlight \ crowded
  BY <1>0, <1>2, <1>3, GotoAlone
<1>5. RefusedOnlyInRace'
  BY <1>1, <1>4 DEF RaceInv, RefusedOnlyInRace
<1>6. Holders'
  <2>1. CASE Demote(q)
    BY <1>0, <1>1, <1>3, <2>1 DEF Demote, Goto, RaceInv, Holders
  <2>2. CASE LockDemoted(q)
    BY <1>0, <1>1, <1>3, <2>2 DEF LockDemoted, Goto, RaceInv, Holders
  <2>3. CASE InsertOwn(q) \/ UpdateOwn(q)
    BY <1>0, <1>1, <1>3, <2>3 DEF InsertOwn, UpdateOwn, Goto, RaceInv, Holders
  <2>4. CASE Index(q)
    BY <1>0, <1>1, <1>3, <2>4 DEF Index, Move, Goto, RaceInv, Holders
  <2>5. CASE \/ BeginAdd(q) \/ BeginUpdate(q)
             \/ At(q, "translate", "received") /\ Move(q, "checked")
    <3>1. pc[q] = "received" /\ UNCHANGED <<target, lock>>
      BY <2>5 DEF BeginAdd, BeginUpdate, Move
    <3> QED
      BY <1>0, <1>1, <1>3, <3>1 DEF RaceInv, Holders
  <2> QED
    BY <2>1, <2>2, <2>3, <2>4, <2>5
<1>7. Undisturbed'
  <2> SUFFICES ASSUME q \in InFlight' \ crowded'
               PROVE  /\ pc'[q] = "demoting" => target'[q] = Covers \ {Image(q)}
                      /\ pc'[q] \in {"demoted", "owned", "written"} /\ Promotes(q)
                           => \A i \in Covers \ {Image(q)} : lock'[i] = q
    BY <1>1, <1>4 DEF Undisturbed
  <2>1. pc'[q] = stage
    BY <1>0, <1>3
  <2>2. pc[q] = "received" \/ q \in InFlight \ crowded
    BY <1>4
  <2>3. CASE pc[q] = "received"
    <3>1. stage # "demoting" /\ (stage \in {"demoted", "owned", "written"} => ~Promotes(q))
      BY <1>0, <2>1, <2>3
      DEF BeginAdd, BeginUpdate, Demote, LockDemoted, InsertOwn, UpdateOwn, Index, Move, Goto
    <3> QED
      BY <2>1, <3>1
  <2>4. CASE q \in InFlight \ crowded /\ pc[q] # "received"
    <3>1. CASE Demote(q)
      BY <1>0, <2>1, <3>1 DEF Demote, Goto
    <3>2. CASE LockDemoted(q)
      BY <1>0, <2>1, <2>4, <3>2 DEF LockDemoted, Goto, RaceInv, Undisturbed, Covers
    <3>3. CASE InsertOwn(q) \/ UpdateOwn(q)
      BY <1>0, <2>1, <2>4, <3>3 DEF InsertOwn, UpdateOwn, Goto, RaceInv, Undisturbed, Covers
    <3>4. CASE Index(q)
      BY <1>0, <2>1, <2>4, <3>4 DEF Index, Move, Goto, RaceInv, Undisturbed
    <3> QED
      BY <2>4, <3>1, <3>2, <3>3, <3>4 DEF BeginAdd, BeginUpdate
  <2> QED
    BY <2>2, <2>3, <2>4
<1> QED
  BY <1>5, <1>6, <1>7 DEF RaceInv

\* A request that ends gives its locks back, and is refused in a race only.
LEMMA EndKeepsRace ==
  ASSUME IInv, RaceInv, NEW q \in Requests, NEW answer \in Replies, End(q, answer),
         pc[q] # "done",
         answer = "conflict" /\ Promotes(q)
           => q \in InFlight /\ (InFlight = {q} => q \in crowded)
  PROVE  RaceInv'
<1> USE DEF Stages
<1>0. /\ TypeOK /\ pc \in [Requests -> Stages] /\ lock \in [Images -> Requests \cup {NoOne}]
      /\ target \in [Requests -> SUBSET Images] /\ reply \in [Requests -> Replies]
  BY DEF IInv, TypeOK
<1>1. /\ Goto(q, "done") /\ pc' = [pc EXCEPT ![q] = "done"] /\ req' = req
      /\ reply' = [reply EXCEPT ![q] = answer] /\ target' = [target EXCEPT ![q] = {}]
      /\ lock' = [i \in Images |-> IF lock[i] = q THEN NoOne ELSE lock[i]]
  BY DEF End, Goto
<1>2. /\ crowded \subseteq crowded'
      /\ InFlight' \ crowded' = {}
      /\ q \in InFlight /\ q \notin crowded' => InFlight = {q} /\ q \notin crowded
  BY <1>0, <1>1, GotoAlone
<1>3. Undisturbed'
  BY <1>2 DEF Undisturbed
<1>4. Holders'
  BY <1>0, <1>1 DEF RaceInv, Holders
<1>5. RefusedOnlyInRace'
  BY <1>0, <1>1, <1>2 DEF RaceInv, RefusedOnlyInRace
<1> QED
  BY <1>3, <1>4, <1>5 DEF RaceInv

\* Alone, a promotion finds no other cover at the index, and waits for nobody.
LEMMA AloneIsServed ==
  ASSUME IInv, RaceInv, NEW q \in Requests, IndexRefuses(q) \/ Victim(q), InFlight = {q}
  PROVE  q \in crowded
<1> SUFFICES ASSUME q \notin crowded
             PROVE  FALSE
  OBVIOUS
<1>1. /\ lock \in [Images -> Requests \cup {NoOne}] /\ target \in [Requests -> SUBSET Images]
      /\ Image(q) \in Images
  BY DEF IInv, TypeOK, Input
<1>2. \A i \in Images : lock[i] \in {q, NoOne}
  BY <1>1 DEF RaceInv, Holders, InFlight
<1>3. CASE IndexRefuses(q)
  <2>1. PICK i \in Covers : lock[i] # q
    BY <1>3 DEF IndexRefuses, OtherCovers
  <2>2. lock[Image(q)] = q
    BY <1>3 DEF IndexRefuses, IInv, LocksCover
  <2> QED
    BY <1>3, <2>1, <2>2 DEF IndexRefuses, RaceInv, Undisturbed
<1>4. CASE Victim(q)
  <2>1. Blockers(q) = {}
    <3>1. \A p \in Requests : pc[p] = "written" => p = q
      BY DEF InFlight
    <3> QED
      BY <1>2, <3>1, GalleryAssumption DEF Blockers, Covers
  <2>2. pc[q] = "demoting" => {lock[i] : i \in target[q]} \ {NoOne} = {}
    BY <1>1, <1>2 DEF RaceInv, Holders
  <2>3. At(q, "update", "demoted") => {lock[Image(q)]} \ {NoOne} = {}
    BY <1>1, <1>2 DEF RaceInv, Holders
  <2>4. WaitsFor(q) = {}
    BY <2>1, <2>2, <2>3 DEF WaitsFor
  <2> QED
    BY <1>4, <2>4 DEF Victim
<1> QED
  BY <1>3, <1>4

LEMMA NextKeepsRace == IInv /\ RaceInv /\ [Next]_vars => RaceInv'
<1> SUFFICES ASSUME IInv, RaceInv, [Next]_vars
             PROVE  RaceInv'
  OBVIOUS
<1>0. req \in [Requests -> Input]
  BY DEF IInv, TypeOK
<1>1. ASSUME NEW q \in Requests, Step(q) \/ Crash(q)
      PROVE  RaceInv'
  <2>1. CASE \/ BeginAdd(q) \/ BeginUpdate(q) \/ Demote(q) \/ LockDemoted(q)
             \/ InsertOwn(q) \/ UpdateOwn(q) \/ Index(q)
    BY <2>1, StatementKeepsRace
  <2>2. CASE IndexRefuses(q) \/ Victim(q)
    <3>1. End(q, "conflict") /\ pc[q] \notin {"received", "done"}
      BY <2>2 DEF IndexRefuses, Victim, WaitsFor, Rollback
    <3>2. q \in InFlight /\ "conflict" \in Replies
      BY <3>1 DEF InFlight, Replies
    <3> QED
      BY <2>2, <3>1, <3>2, AloneIsServed, EndKeepsRace
  <2>3. CASE \/ UpdateNotFound(q) \/ UpdateNothing(q) \/ Commit(q) \/ Crash(q)
    <3>1. PICK answer \in Replies \ {"conflict"} : End(q, answer)
      BY <2>3 DEF UpdateNotFound, UpdateNothing, Commit, Crash, Rollback, Replies
    <3>2. pc[q] # "done"
      BY <2>3 DEF UpdateNotFound, UpdateNothing, Commit, Crash, InFlight
    <3> QED
      BY <3>1, <3>2, EndKeepsRace
  <2>4. CASE FindForAlt(q) /\ Move(q, "checked")
    BY <2>4, StatementKeepsRace DEF FindForAlt
  <2>5. CASE \/ Delete(q) \/ DeleteRefused(q) \/ UpsertAlt(q)
             \/ FindForAlt(q) /\ ~Move(q, "checked")
    <3>1. PICK answer \in Replies : End(q, answer)
      BY <2>5 DEF Delete, DeleteRefused, UpsertAlt, FindForAlt, Rollback, Replies
    <3>2. pc[q] # "done" /\ ~Promotes(q)
      BY <1>0, <2>5 DEF Delete, DeleteRefused, UpsertAlt, FindForAlt, Input
    <3> QED
      BY <3>1, <3>2, EndKeepsRace
  <2> QED
    BY <1>1, <2>1, <2>2, <2>3, <2>4, <2>5 DEF Step
<1>2. CASE UNCHANGED vars
  BY <1>2
  DEF vars, requestVars, RaceInv, Undisturbed, Holders, RefusedOnlyInRace, InFlight, Covers
<1> QED
  BY <1>1, <1>2 DEF Next, Idle

\* A promotion is refused only when another request was under way with it.
THEOREM RefusedInRace == Spec => []RefusedOnlyInRace
<1>1. RaceInv => RefusedOnlyInRace
  BY DEF RaceInv
<1> QED
  BY <1>1, InitRace, Initially, NextKeepsRace, NextKeepsIInv, PTL DEF Spec
-----------------------------------------------------------------------------
(* Deadlocks.                                                              *)

\* Who holds a row has demoted covers or written its photo: the other rows it
\* holds are covers, and its own is not among them before it has written it.
Holding ==
  /\ \A r \in Requests : pc[r] = "demoting" => Image(r) \notin target[r]
  /\ \A i \in Images : lock[i] # NoOne =>
        /\ pc[lock[i]] \in {"demoted", "owned", "written"}
        /\ i # Image(lock[i]) => i \in Covers
        /\ pc[lock[i]] = "demoted" => i # Image(lock[i])

LEMMA InitHolding == Init => Holding
  BY DEF Init, Holding

\* A statement locks covers to be demoted, or its own photo when it writes it.
LEMMA StatementKeepsHolding ==
  ASSUME IInv, Holding, NEW r \in Requests,
         \/ BeginAdd(r) \/ BeginUpdate(r) \/ Demote(r) \/ LockDemoted(r)
         \/ InsertOwn(r) \/ UpdateOwn(r) \/ Index(r)
         \/ At(r, "translate", "received") /\ Move(r, "checked")
  PROVE  Holding'
<1>0. /\ pc \in [Requests -> Stages] /\ lock \in [Images -> Requests \cup {NoOne}]
      /\ target \in [Requests -> SUBSET Images] /\ Image(r) \in Images
      /\ NoOne \notin Requests
  BY GalleryAssumption DEF IInv, TypeOK, Input
<1>1. UNCHANGED <<req, image>> /\ Covers' = Covers
  BY DEF BeginAdd, BeginUpdate, Demote, LockDemoted, InsertOwn, UpdateOwn, Index, Move,
         Covers
<1>2. CASE \/ BeginAdd(r) \/ BeginUpdate(r)
           \/ At(r, "translate", "received") /\ Move(r, "checked")
  <2>1. PICK stage : pc' = [pc EXCEPT ![r] = stage] /\ stage # "demoting"
    BY <1>2 DEF BeginAdd, BeginUpdate, Move, Goto
  <2>2. pc[r] = "received" /\ UNCHANGED <<lock, target>>
    BY <1>2 DEF BeginAdd, BeginUpdate, Move
  <2> QED
    BY <1>0, <1>1, <2>1, <2>2 DEF Holding
<1>3. CASE Demote(r)
  <2>1. /\ pc[r] = "found" /\ pc' = [pc EXCEPT ![r] = "demoting"] /\ UNCHANGED lock
        /\ target' = [target EXCEPT ![r] = Covers \ {Image(r)}]
    BY <1>3 DEF Demote, Goto
  <2> QED
    BY <1>0, <1>1, <2>1 DEF Holding
<1>4. CASE LockDemoted(r)
  <2>1. /\ pc[r] = "demoting" /\ pc' = [pc EXCEPT ![r] = "demoted"] /\ UNCHANGED target
        /\ lock' = [i \in Images |-> IF i \in target[r] \cap Covers THEN r ELSE lock[i]]
    BY <1>4 DEF LockDemoted, Goto
  <2> QED
    BY <1>0, <1>1, <2>1 DEF Holding
<1>5. CASE InsertOwn(r) \/ UpdateOwn(r)
  <2>1. /\ pc[r] = "demoted" /\ pc' = [pc EXCEPT ![r] = "owned"] /\ UNCHANGED target
        /\ lock' = [lock EXCEPT ![Image(r)] = r]
    BY <1>5 DEF InsertOwn, UpdateOwn, Goto
  <2> QED
    BY <1>0, <1>1, <2>1 DEF Holding
<1>6. CASE Index(r)
  <2>1. /\ pc[r] = "owned" /\ pc' = [pc EXCEPT ![r] = "written"] /\ UNCHANGED <<lock, target>>
    BY <1>6 DEF Index, Move, Goto
  <2> QED
    BY <1>0, <1>1, <2>1 DEF Holding
<1> QED
  BY <1>2, <1>3, <1>4, <1>5, <1>6

\* A request that ends gives its rows back, and leaves the covers that others have
\* locked as they are.
LEMMA EndKeepsHolding ==
  ASSUME IInv, Holding, NEW r \in Requests, NEW answer, End(r, answer),
         \A i \in Images : lock[i] \notin {r, NoOne} => image'[i] = image[i]
  PROVE  Holding'
<1>1. /\ pc \in [Requests -> Stages] /\ lock \in [Images -> Requests \cup {NoOne}]
      /\ target \in [Requests -> SUBSET Images] /\ NoOne \notin Requests
  BY GalleryAssumption DEF IInv, TypeOK
<1>2. /\ pc' = [pc EXCEPT ![r] = "done"] /\ req' = req
      /\ target' = [target EXCEPT ![r] = {}]
      /\ lock' = [i \in Images |-> IF lock[i] = r THEN NoOne ELSE lock[i]]
  BY DEF End, Goto
<1> QED
  BY <1>1, <1>2 DEF Holding, Covers

LEMMA NextKeepsHolding == IInv /\ Holding /\ [Next]_vars => Holding'
<1> SUFFICES ASSUME IInv, Holding, [Next]_vars
             PROVE  Holding'
  OBVIOUS
<1>1. ASSUME NEW r \in Requests, Step(r) \/ Crash(r)
      PROVE  Holding'
  <2>1. CASE \/ BeginAdd(r) \/ BeginUpdate(r) \/ Demote(r) \/ LockDemoted(r)
             \/ InsertOwn(r) \/ UpdateOwn(r) \/ Index(r)
             \/ FindForAlt(r) /\ Move(r, "checked")
    BY <2>1, StatementKeepsHolding DEF FindForAlt
  <2>2. CASE \/ UpdateNotFound(r) \/ IndexRefuses(r) \/ DeleteRefused(r) \/ UpsertAlt(r)
             \/ Victim(r) \/ Crash(r)
             \/ FindForAlt(r) /\ ~Move(r, "checked")
    <3>1. image' = image /\ \E answer : End(r, answer)
      BY <2>2 DEF UpdateNotFound, IndexRefuses, DeleteRefused, UpsertAlt, Victim, Crash,
                  FindForAlt, Rollback
    <3> QED
      BY <3>1, EndKeepsHolding
  <2>3. CASE Commit(r)
    BY <2>3, CommitEffect, EndKeepsHolding DEF Commit
  <2>4. CASE UpdateNothing(r)
    BY <2>4, NothingEffect, EndKeepsHolding DEF UpdateNothing
  <2>5. CASE Delete(r)
    BY <2>5, DeleteEffect, EndKeepsHolding DEF Delete
  <2> QED
    BY <1>1, <2>1, <2>2, <2>3, <2>4, <2>5 DEF Step
<1>2. CASE UNCHANGED vars
  BY <1>2 DEF vars, requestVars, Holding, Covers
<1> QED
  BY <1>1, <1>2 DEF Next, Idle

\* Nobody waits for himself, nor for a request that has written nothing or has ended.
LEMMA WaitsForHolders ==
  ASSUME IInv, Holding, NEW r \in Requests, NEW q \in WaitsFor(r)
  PROVE  /\ q \in Requests /\ q # r
         /\ pc[q] \in {"demoted", "owned", "written"}
<1>1. /\ pc \in [Requests -> Stages] /\ lock \in [Images -> Requests \cup {NoOne}]
      /\ target \in [Requests -> SUBSET Images] /\ Image(r) \in Images
  BY DEF IInv, TypeOK, Input
<1>2. CASE pc[r] = "demoting"
  <2>1. PICK i \in target[r] : q = lock[i] /\ q # NoOne
    BY <1>2 DEF WaitsFor
  <2>2. i \in Images
    BY <1>1, <2>1
  <2> QED
    BY <1>1, <1>2, <2>1, <2>2 DEF Holding
<1>3. CASE At(r, "update", "demoted")
  <2>1. q = lock[Image(r)] /\ q # NoOne
    BY <1>3 DEF WaitsFor
  <2> QED
    BY <1>1, <1>3, <2>1 DEF Holding
<1>4. CASE pc[r] = "owned" /\ Promotes(r)
  <2>1. q \in Blockers(r)
    BY <1>4 DEF WaitsFor
  <2> QED
    BY <1>1, <2>1, GalleryAssumption DEF Blockers, Holding, Covers
<1> QED
  BY <1>2, <1>3, <1>4 DEF WaitsFor

\* One that has not passed the index is waited for because of a row it holds.
LEMMA WaitsOnRows ==
  ASSUME IInv, NEW r \in Requests, NEW q \in WaitsFor(r), pc[q] # "written"
  PROVE  \E i \in Images : lock[i] = q
<1>1. target \in [Requests -> SUBSET Images] /\ Image(r) \in Images
  BY DEF IInv, TypeOK, Input
<1> QED
  BY <1>1 DEF WaitsFor, Blockers, Covers

\* The index is waited for because somebody else has the cover, unless he has passed
\* the index: who has the cover himself waits for nobody but those.
LEMMA CoverOwnerWaits ==
  ASSUME IInv, Holding, NEW r \in Requests, pc[r] = "owned",
         NEW q \in WaitsFor(r), pc[q] # "written"
  PROVE  /\ Promotes(r)
         /\ \E i \in Covers : lock[i] = q
         /\ \A i \in Covers : lock[i] # r
<1>1. Promotes(r) /\ q \in Blockers(r)
  BY DEF WaitsFor
<1>2. q # r
  BY WaitsForHolders
<1> QED
  BY <1>1, <1>2 DEF Blockers, IInv, AtMostOneCover

\* In a circle, who has demoted the cover waits for its photo, which it cannot have
\* itself and which no other demotion can have locked, for there is one cover.
LEMMA DemotedMeetsOwner ==
  ASSUME IInv, Holding, NEW S \in SUBSET Requests,
         \A r \in S : pc[r] # "done" => WaitsFor(r) \cap S # {},
         NEW q \in S, pc[q] = "demoted", NEW i \in Images, lock[i] = q
  PROVE  \E r \in S : /\ Promotes(q) /\ At(q, "update", "demoted") /\ r \in WaitsFor(q)
                      /\ Promotes(r) /\ pc[r] = "owned" /\ q \in WaitsFor(r)
<1>1. /\ pc \in [Requests -> Stages] /\ lock \in [Images -> Requests \cup {NoOne}]
      /\ Image(q) \in Images /\ NoOne \notin Requests
  BY GalleryAssumption DEF IInv, TypeOK, Input
<1>2. PICK r \in S : r \in WaitsFor(q)
  OBVIOUS
<1>3. At(q, "update", "demoted") /\ r = lock[Image(q)] /\ r # NoOne
  BY <1>2 DEF WaitsFor
<1>4. i \in Covers /\ i # Image(q) /\ Promotes(q)
  BY <1>1 DEF Holding, IInv, LocksCover
<1>5. r # q /\ pc[r] \in {"demoted", "owned", "written"}
  BY <1>2, WaitsForHolders
<1>6. pc[r] # "demoted"
  BY <1>1, <1>3, <1>4, <1>5 DEF Holding, IInv, AtMostOneCover
<1>7. PICK p \in S : p \in WaitsFor(r)
  BY <1>5
<1>8. pc[r] = "owned" /\ Promotes(r)
  BY <1>5, <1>6, <1>7 DEF WaitsFor
<1>9. q \in WaitsFor(r)
  BY <1>4, <1>5, <1>8 DEF WaitsFor, Blockers
<1> QED
  BY <1>2, <1>3, <1>4, <1>8, <1>9

\* Admins who change the photos of a room type at the same time deadlock in one way
\* only, in pairs, and the detector has only such pairs to break.
THEOREM PromotionsDeadlock == Spec => []OnlyPromotionsDeadlock
<1>1. ASSUME IInv, Holding
      PROVE  OnlyPromotionsDeadlock
  <2> SUFFICES ASSUME NEW S \in SUBSET Requests, \E r \in S : pc[r] # "done",
                      \A r \in S : pc[r] # "done" => WaitsFor(r) \cap S # {}
               PROVE  \E q, r \in S :
                        /\ Promotes(q) /\ At(q, "update", "demoted") /\ r \in WaitsFor(q)
                        /\ Promotes(r) /\ pc[r] = "owned" /\ q \in WaitsFor(r)
    BY DEF OnlyPromotionsDeadlock
  <2>0. lock \in [Images -> Requests \cup {NoOne}]
    BY <1>1 DEF IInv, TypeOK
  <2>1. ASSUME NEW r \in S, pc[r] # "done"
        PROVE  \E q \in S : /\ q \in WaitsFor(r) /\ q # r
                            /\ pc[q] \in {"demoted", "owned"}
    <3>1. PICK q \in S : q \in WaitsFor(r)
      BY <2>1
    <3>2. q # r /\ pc[q] \in {"demoted", "owned", "written"}
      BY <1>1, <3>1, WaitsForHolders
    <3>3. pc[q] # "written"
      BY <3>2 DEF WaitsFor
    <3> QED
      BY <3>1, <3>2, <3>3
  <2>2. ASSUME NEW q \in S, pc[q] = "demoted", NEW i \in Images, lock[i] = q
        PROVE  \E r \in S :
                 /\ Promotes(q) /\ At(q, "update", "demoted") /\ r \in WaitsFor(q)
                 /\ Promotes(r) /\ pc[r] = "owned" /\ q \in WaitsFor(r)
    BY <1>1, <2>2, DemotedMeetsOwner
  <2>3. ASSUME NEW r \in S, pc[r] = "owned"
        PROVE  \E q \in S, i \in Images : pc[q] = "demoted" /\ lock[i] = q
    <3>1. PICK q \in S : q \in WaitsFor(r) /\ q # r /\ pc[q] \in {"demoted", "owned"}
      BY <2>1, <2>3
    <3>2. PICK i \in Covers : lock[i] = q
      BY <1>1, <2>3, <3>1, CoverOwnerWaits
    <3>3. pc[q] # "owned"
      <4> SUFFICES ASSUME pc[q] = "owned"
                   PROVE  FALSE
        OBVIOUS
      <4>1. PICK p \in S : p \in WaitsFor(q) /\ pc[p] \in {"demoted", "owned"}
        BY <2>1
      <4> QED
        BY <1>1, <3>2, <4>1, CoverOwnerWaits
    <3> QED
      BY <3>1, <3>2, <3>3 DEF Covers
  <2>4. PICK r \in S : pc[r] # "done"
    OBVIOUS
  <2>5. PICK q \in S : q \in WaitsFor(r) /\ pc[q] \in {"demoted", "owned"}
    BY <2>1, <2>4
  <2>6. CASE pc[q] = "owned"
    BY <2>2, <2>3, <2>6
  <2>7. CASE pc[q] = "demoted"
    <3>1. \E i \in Images : lock[i] = q
      BY <1>1, <2>5, <2>7, WaitsOnRows
    <3> QED
      BY <2>2, <2>7, <3>1
  <2> QED
    BY <2>5, <2>6, <2>7
<1> QED
  BY <1>1, InitHolding, Initially, NextKeepsHolding, NextKeepsIInv, PTL DEF Spec
=============================================================================
