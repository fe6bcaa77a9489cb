-------------------------------- MODULE Gallery ------------------------------
(***************************************************************************)
(* The photos of one room type (catalogService.js): admins add, change,      *)
(* translate and delete them, at most one is the cover.  The galleries of    *)
(* two room types have no row in common.                                    *)
(*                                                                         *)
(* An added photo has the id that its request names.  A transaction keeps    *)
(* the rows it has updated locked and its changes show when it commits; the  *)
(* partial unique index on covers makes it wait for whoever is changing the  *)
(* cover, and fail when there is another one.                               *)
(***************************************************************************)
EXTENDS Integers, FiniteSets

CONSTANTS
  Requests,  \* request ids
  Images,    \* image ids
  Loads,     \* what the requests of a behaviour ask for: [Requests -> Input]
  Galleries, \* the galleries to start with: [Images -> ImageStates]
  NoOne      \* nobody holds the lock

ImageStates == {"none", "plain", "cover"}

\* `cover`: is_cover of the body, "unset" when it is not there.
Input ==
  [op : {"add", "update"}, image : Images, cover : {"true", "false", "unset"}]
  \cup [op : {"delete", "translate"}, image : Images, cover : {"unset"}]

ASSUME GalleryAssumption ==
  /\ Loads \subseteq [Requests -> Input]
  /\ Galleries \subseteq [Images -> ImageStates]
  /\ NoOne \notin Requests
  \* A photo is added once, and the index holds at the start.
  /\ \A load \in Loads, g \in Galleries, r \in Requests : load[r].op = "add" =>
       /\ g[load[r].image] = "none"
       /\ \A q \in Requests \ {r} : load[q].op = "add" => load[q].image # load[r].image
  /\ \A g \in Galleries, i, j \in Images : g[i] = "cover" /\ g[j] = "cover" => i = j

VARIABLES
  req,       \* req[r]: what request r asks for
  pc,        \* pc[r]: how far it has come
  target,    \* target[r]: the covers that r's demoting statement matched
  lock,      \* lock[i]: the transaction that has updated row i
  image,     \* room_type_images: the committed state of each row
  translated,\* images with rows in room_type_image_translations
  reply,     \* reply[r]: what the client got
  crowded    \* history: requests served while another one was

requestVars == <<req, pc, target, reply, crowded>>
vars == <<requestVars, lock, image, translated>>

\* "found": the old cover is to be demoted.  "demoting": the statement for it
\* has begun.  "demoted": that is done or not asked for.  "owned": has written
\* its own row and not yet its index entry.  "written": nothing is left but
\* COMMIT.  "checked": the photo to translate was there.
Stages == {"received", "checked", "found", "demoting", "demoted", "owned", "written", "done"}

Replies == {"none", "ok", "notFound", "conflict", "lost"}

TypeOK ==
  /\ req \in [Requests -> Input]
  /\ pc \in [Requests -> Stages]
  /\ target \in [Requests -> SUBSET Images]
  /\ lock \in [Images -> Requests \cup {NoOne}]
  /\ image \in [Images -> ImageStates]
  /\ translated \in SUBSET Images
  /\ reply \in [Requests -> Replies]
  /\ crowded \in SUBSET Requests

Init ==
  /\ req \in Loads
  /\ pc = [r \in Requests |-> "received"]
  /\ target = [r \in Requests |-> {}]
  /\ lock = [i \in Images |-> NoOne]
  /\ image \in Galleries
  /\ translated = {}
  /\ reply = [r \in Requests |-> "none"]
  /\ crowded = {}

-----------------------------------------------------------------------------

Op(r) == req[r].op
Image(r) == req[r].image
Promotes(r) == req[r].cover = "true"

At(r, op, stage) == Op(r) = op /\ pc[r] = stage
InFlight == {r \in Requests : pc[r] \notin {"received", "done"}}

\* Whoever is under way when r moves is not alone.
Goto(r, stage) ==
  /\ pc' = [pc EXCEPT ![r] = stage]
  /\ crowded' = LET busy == InFlight \cup {r}
                IN  IF busy = {r} THEN crowded ELSE crowded \cup busy

Move(r, stage) ==
  /\ Goto(r, stage)
  /\ UNCHANGED <<req, target, lock, image, translated, reply>>

\* Mutant of End: a failed request returns its connection without ROLLBACK.
EndHolding(r, answer) ==
  /\ Goto(r, "done")
  /\ reply' = [reply EXCEPT ![r] = answer]
  /\ target' = [target EXCEPT ![r] = {}]
  /\ lock' = [i \in Images |-> IF lock[i] = r /\ answer = "ok" THEN NoOne ELSE lock[i]]
  /\ UNCHANGED req

End(r, answer) ==
  /\ Goto(r, "done")
  /\ reply' = [reply EXCEPT ![r] = answer]
  /\ target' = [target EXCEPT ![r] = {}]
  /\ lock' = [i \in Images |-> IF lock[i] = r THEN NoOne ELSE lock[i]]
  /\ UNCHANGED req

Rollback(r, answer) == End(r, answer) /\ UNCHANGED <<image, translated>>

Covers == {i \in Images : image[i] = "cover"}

-----------------------------------------------------------------------------
(* addRoomTypeImage and updateRoomTypeImage.                               *)

BeginAdd(r) ==
  /\ At(r, "add", "received")
  /\ Move(r, IF Promotes(r) THEN "found" ELSE "demoted")

BeginUpdate(r) ==
  /\ At(r, "update", "received")
  /\ image[Image(r)] # "none"
  /\ Move(r, IF Promotes(r) THEN "found" ELSE "demoted")

UpdateNotFound(r) ==
  /\ At(r, "update", "received")
  /\ image[Image(r)] = "none"
  /\ Rollback(r, "notFound")

\* Mutant of Demote: the photo itself is looked for instead of the others.
DemoteSelf(r) ==
  /\ pc[r] = "found"
  /\ target' = [target EXCEPT ![r] = Covers \cap {Image(r)}]
  /\ Goto(r, "demoting")
  /\ UNCHANGED <<req, lock, image, translated, reply>>

\* UPDATE ... SET is_cover = false matches the covers committed when it begins.
Demote(r) ==
  /\ pc[r] = "found"
  /\ target' = [target EXCEPT ![r] = Covers \ {Image(r)}]
  /\ Goto(r, "demoting")
  /\ UNCHANGED <<req, lock, image, translated, reply>>

\* A row that was waited for and is no cover any more is passed over.
LockDemoted(r) ==
  /\ pc[r] = "demoting"
  /\ \A i \in target[r] : lock[i] = NoOne
  /\ lock' = [i \in Images |-> IF i \in target[r] \cap Covers THEN r ELSE lock[i]]
  /\ Goto(r, "demoted")
  /\ UNCHANGED <<req, target, image, translated, reply>>

InsertOwn(r) ==
  /\ At(r, "add", "demoted")
  /\ lock' = [lock EXCEPT ![Image(r)] = r]
  /\ Goto(r, "owned")
  /\ UNCHANGED <<req, target, image, translated, reply>>

UpdateOwn(r) ==
  /\ At(r, "update", "demoted")
  /\ image[Image(r)] # "none"
  /\ lock[Image(r)] = NoOne
  /\ lock' = [lock EXCEPT ![Image(r)] = r]
  /\ Goto(r, "owned")
  /\ UNCHANGED <<req, target, image, translated, reply>>

\* The photo was deleted since it was found: the UPDATE matches no row, and
\* the demotion of the old cover is committed all the same.
UpdateNothing(r) ==
  /\ At(r, "update", "demoted")
  /\ image[Image(r)] = "none"
  /\ image' = [i \in Images |-> IF lock[i] = r THEN "plain" ELSE image[i]]
  /\ End(r, "ok")
  /\ UNCHANGED translated

\* The transactions whose end the index waits for: they are changing the row
\* of the cover, or have written a cover of their own.
Blockers(r) ==
  {q \in Requests \ {r} :
     \/ \E i \in Covers : lock[i] = q
     \/ pc[q] = "written" /\ Promotes(q)}

\* A cover that r has not demoted and that is not r's own photo.
OtherCovers(r) == {i \in Covers : lock[i] # r}

\* Mutant of Index: there is no unique index.
NoIndex(r) ==
  /\ pc[r] = "owned"
  /\ Move(r, "written")

Index(r) ==
  /\ pc[r] = "owned"
  /\ Promotes(r) => Blockers(r) = {} /\ OtherCovers(r) = {}
  /\ Move(r, "written")

\* The unique violation is not translated: the client gets a 500.
IndexRefuses(r) ==
  /\ pc[r] = "owned"
  /\ Promotes(r)
  /\ Blockers(r) = {}
  /\ OtherCovers(r) # {}
  /\ Rollback(r, "conflict")

\* Mutant of Written: is_cover of a new photo is lost.
WrittenPlain(r) == IF Op(r) = "add" THEN "plain" ELSE image[Image(r)]

\* Mutant of Written: the COALESCEs around is_cover are gone.
WrittenNull(r) ==
  CASE req[r].cover = "true"  -> "cover"
    [] req[r].cover = "false" -> "plain"
    [] OTHER                  -> "null"

Written(r) ==
  CASE Promotes(r)                                    -> "cover"
    [] req[r].cover = "unset" /\ Op(r) = "update"      -> image[Image(r)]
    [] OTHER                                           -> "plain"

Commit(r) ==
  /\ pc[r] = "written"
  /\ image' = [i \in Images |-> IF i = Image(r) THEN Written(r)
                                ELSE IF lock[i] = r THEN "plain" ELSE image[i]]
  /\ \E answer \in {"ok", "lost"} : End(r, answer)
  /\ UNCHANGED translated

-----------------------------------------------------------------------------
(* deleteRoomTypeImage and upsertImageAltTranslation.                      *)

\* A photo with translations is kept by their foreign key.
Delete(r) ==
  /\ At(r, "delete", "received")
  /\ image[Image(r)] # "none" => lock[Image(r)] = NoOne
  /\ Image(r) \notin translated
  /\ image' = [image EXCEPT ![Image(r)] = "none"]
  /\ End(r, IF image[Image(r)] = "none" THEN "notFound" ELSE "ok")
  /\ UNCHANGED translated

DeleteRefused(r) ==
  /\ At(r, "delete", "received")
  /\ lock[Image(r)] = NoOne
  /\ Image(r) \in translated
  /\ Rollback(r, "conflict")

FindForAlt(r) ==
  /\ At(r, "translate", "received")
  /\ IF image[Image(r)] = "none" THEN Rollback(r, "notFound")
                                ELSE Move(r, "checked")

\* The foreign key waits for nobody but finds a photo deleted since.
UpsertAlt(r) ==
  /\ At(r, "translate", "checked")
  /\ translated' = IF image[Image(r)] = "none" THEN translated
                   ELSE translated \cup {Image(r)}
  /\ End(r, IF image[Image(r)] = "none" THEN "conflict" ELSE "ok")
  /\ UNCHANGED image

-----------------------------------------------------------------------------
(* Deadlocks and failures.                                                 *)

\* Whose end r's statement waits for.
WaitsFor(r) ==
  CASE pc[r] = "demoting"               -> {lock[i] : i \in target[r]} \ {NoOne}
    [] At(r, "update", "demoted")       -> {lock[Image(r)]} \ {NoOne}
    [] pc[r] = "owned" /\ Promotes(r)   -> Blockers(r)
    [] OTHER                            -> {}

\* One of two transactions that wait for each other is rolled back.
Victim(r) ==
  /\ \E q \in WaitsFor(r) : r \in WaitsFor(q)
  /\ Rollback(r, "conflict")

\* The connection or the process dies.
Crash(r) ==
  /\ r \in InFlight
  /\ Rollback(r, "lost")

-----------------------------------------------------------------------------

Step(r) ==
  \/ BeginAdd(r) \/ BeginUpdate(r) \/ UpdateNotFound(r) \/ Demote(r)
  \/ LockDemoted(r) \/ InsertOwn(r) \/ UpdateOwn(r) \/ UpdateNothing(r)
  \/ Index(r) \/ IndexRefuses(r) \/ Commit(r)
  \/ Delete(r) \/ DeleteRefused(r) \/ FindForAlt(r) \/ UpsertAlt(r)
  \/ Victim(r)

Idle == (\A r \in Requests : pc[r] = "done") /\ UNCHANGED vars

Next ==
  \/ \E r \in Requests : Step(r) \/ Crash(r)
  \/ Idle

Spec == Init /\ [][Next]_vars

\* Statements that can go on are executed, and the deadlock detector runs.
FairSpec == Spec /\ \A r \in Requests : WF_vars(Step(r))

-----------------------------------------------------------------------------
(* Safety.                                                                 *)

\* "at most one cover photo per room type, even if two admin requests race to
\* set is_cover=true at the same time" (010_room_catalog.sql).
AtMostOneCover == \A i, j \in Covers : i = j

\* "If is_cover is true, atomically demotes any existing cover image first"
\* (catalogService.js): a request that promotes a photo fails only when another
\* request to the gallery is under way at the same time.
RefusedOnlyInRace ==
  \A r \in Requests : Promotes(r) /\ reply[r] = "conflict" => r \in crowded

\* Requests to a gallery wait in a circle in one way only, and never for a request
\* that has ended: a promotion has demoted the cover and waits for its photo, which
\* another promotion has changed before it came to wait for that cover.
OnlyPromotionsDeadlock ==
  \A S \in SUBSET Requests : (\E r \in S : pc[r] # "done") =>
     \/ \E r \in S : pc[r] # "done" /\ WaitsFor(r) \cap S = {}
     \/ \E q, r \in S : /\ Promotes(q) /\ At(q, "update", "demoted") /\ r \in WaitsFor(q)
                        /\ Promotes(r) /\ pc[r] = "owned" /\ q \in WaitsFor(r)

\* A gallery that has a cover loses it only when the cover is deleted, when an
\* admin clears its is_cover, or when the photo that was to be the new cover
\* was deleted while the old one was being demoted; never by a crash, a
\* refusal or a race between two promotions.
CoverKept ==
  [][Covers # {} /\ Covers' = {} =>
       \E r \in Requests :
          /\ pc[r] # "done" /\ pc'[r] = "done"
          /\ \/ Op(r) = "delete" /\ image[Image(r)] = "cover"
             \/ Op(r) = "update" /\ req[r].cover = "false" /\ image[Image(r)] = "cover"
             \/ Op(r) = "update" /\ Promotes(r) /\ image[Image(r)] = "none"]_vars

-----------------------------------------------------------------------------
(* Liveness.                                                               *)

\* Every request is answered: a promotion that has demoted the cover and waits
\* for its photo can only wait in a circle with one that has its photo and
\* waits for the cover, which the deadlock detector breaks.
Answered == \A r \in Requests : <>(pc[r] = "done")
=============================================================================
