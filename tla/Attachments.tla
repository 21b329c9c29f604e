---------------------------- MODULE Attachments -----------------------------
(***************************************************************************)
(* One attachment: its row, its objects in the store, the requests of its  *)
(* uploader, and the sweep that collects what was never confirmed or is    *)
(* deleted.  Attachments do not meet each other.                           *)
(*                                                                         *)
(* Neither side holds the other still: an object is put, looked at and     *)
(* deleted over the network, and the row is changed by its id.             *)
(***************************************************************************)
EXTENDS Naturals

CONSTANTS
  Calls,     \* requests under way at once
  MaxDeaths  \* bound: how often the api or the worker is killed

VARIABLES
  row,     \* status, deletedAt, thumbnailBlobId, and how old it is
  store,   \* what the two keys hold
  subject, \* the task is there
  call,    \* the requests in progress
  sweep,   \* the run of the sweep in progress
  deaths,  \* counter, for the bound
  blipped, \* history: a deletion in the store failed
  torn     \* history: somebody died between the objects and the row

vars == <<row, store, subject, call, sweep, deaths, blipped, torn>>

(* status: as in the row, or how the row went.                             *)
(* age: 0 while the upload urls are good, 1 after, 2 from a day on.        *)
(* kept: the retention of a deleted row is not over.                       *)
Unborn == [status |-> "none", deleted |-> FALSE, thumb |-> FALSE, age |-> 0, kept |-> TRUE]
Idle == [pc |-> "idle", thumb |-> FALSE]

Init ==
  /\ row = Unborn
  /\ store = [main |-> "absent", thumb |-> FALSE]
  /\ subject = TRUE
  /\ call = [c \in Calls |-> Idle]
  /\ sweep = Idle
  /\ deaths = 0
  /\ blipped = FALSE
  /\ torn = FALSE

(* The row is there; findById returns it.                                  *)
Kept == row.status \in {"pending", "uploaded"}
Found == Kept /\ ~row.deleted

Reaches(c, pc) == call' = [call EXCEPT ![c].pc = pc]
Ends(c) == call' = [call EXCEPT ![c] = Idle]
OnlyCalls == UNCHANGED <<row, store, subject, sweep, deaths, blipped, torn>>
OnlyRows == UNCHANGED <<store, subject, sweep, deaths, blipped, torn>>
OnlyStore == UNCHANGED <<row, subject, sweep, deaths, torn>>

----------------------------------------------------------------------------
(* The upload protocol.                                                    *)

CreateUpload ==
  /\ row.status = "none" /\ subject
  /\ \E thumb \in BOOLEAN :
       row' = [Unborn EXCEPT !.status = "pending", !.thumb = thumb]
  /\ UNCHANGED <<store, subject, call, sweep, deaths, blipped, torn>>

(* The client puts against a url, once or again.                           *)
Put ==
  /\ row.status # "none" /\ row.age = 0
  /\ \/ \E size \in {"fits", "large"} : store' = [store EXCEPT !.main = size]
     \/ row.thumb /\ store' = [store EXCEPT !.thumb = TRUE]
  /\ UNCHANGED <<row, subject, call, sweep, deaths, blipped, torn>>

ConfirmReads(c) ==
  /\ call[c] = Idle
  /\ row.status = "pending" /\ Found /\ subject
  /\ call' = [call EXCEPT ![c] = [pc |-> "head", thumb |-> row.thumb]]
  /\ OnlyCalls

HeadUnchecked(c) ==
  /\ call[c].pc = "head"
  /\ Reaches(c, CASE store.main = "large" -> "drop"
                  [] call[c].thumb -> "thumb"
                  [] OTHER -> "swap")
  /\ OnlyCalls

(* The object must have landed; one that is larger than declared is        *)
(* discarded.                                                              *)
Head(c) ==
  /\ call[c].pc = "head"
  /\ CASE store.main = "absent" -> Ends(c)
       [] store.main = "large" -> Reaches(c, "drop")
       [] store.main = "fits" -> Reaches(c, IF call[c].thumb THEN "thumb" ELSE "swap")
  /\ OnlyCalls

DropObject(c) ==
  /\ call[c].pc = "drop"
  /\ store' = [store EXCEPT !.main = "absent"]
  /\ Reaches(c, "erase")
  /\ UNCHANGED blipped /\ OnlyStore

EraseRow(c) ==
  /\ call[c].pc = "erase"
  /\ row' = IF Kept THEN [row EXCEPT !.status = "discarded"] ELSE row
  /\ Ends(c)
  /\ OnlyRows

HeadThumbnail(c) ==
  /\ call[c].pc = "thumb"
  /\ call' = [call EXCEPT ![c].pc = "swap", ![c].thumb = store.thumb]
  /\ OnlyCalls

Swap(c) ==
  /\ call[c].pc = "swap"
  /\ row' = IF row.status = "pending" /\ ~row.deleted
            THEN [row EXCEPT !.status = "uploaded", !.thumb = call[c].thumb] ELSE row
  /\ Ends(c)
  /\ OnlyRows

----------------------------------------------------------------------------
(* Deletion.                                                               *)

DeleteReads(c) ==
  /\ call[c] = Idle
  /\ Found /\ subject
  /\ call' = [call EXCEPT ![c] = [pc |-> "objects", thumb |-> row.thumb]]
  /\ OnlyCalls

(* Both objects, one after the other; the first failure ends it, and       *)
(* nobody minds.                                                           *)
Deleted(thumb) == [main |-> "absent", thumb |-> store.thumb /\ ~thumb]
DeletesObjects(thumb) ==
  \/ store' = Deleted(thumb) /\ UNCHANGED blipped
  \/ store' = store /\ blipped' = TRUE
  \/ thumb /\ store' = [store EXCEPT !.main = "absent"] /\ blipped' = TRUE

DeleteObjects(c) ==
  /\ call[c].pc = "objects"
  /\ DeletesObjects(call[c].thumb)
  /\ Reaches(c, "soft")
  /\ OnlyStore

SoftDelete(c) ==
  /\ call[c].pc = "soft"
  /\ row' = IF Found THEN [row EXCEPT !.deleted = TRUE] ELSE row
  /\ Ends(c)
  /\ OnlyRows

(* The task goes, its attachments stay.                                    *)
SubjectDeleted ==
  /\ subject
  /\ subject' = FALSE
  /\ UNCHANGED <<row, store, call, sweep, deaths, blipped, torn>>

(* A call to the store fails, or the api is killed.                        *)
CallFails(c) ==
  /\ call[c].pc \in {"head", "drop", "thumb"}
  /\ Ends(c)
  /\ OnlyCalls

CallDies(c) ==
  /\ call[c] # Idle /\ deaths < MaxDeaths
  /\ Ends(c)
  /\ deaths' = deaths + 1
  /\ torn' = (torn \/ call[c].pc \in {"erase", "soft"})
  /\ UNCHANGED <<row, store, subject, sweep, blipped>>

----------------------------------------------------------------------------
(* The sweep, every 15 minutes.                                            *)

Stale == row.status = "pending" /\ ~row.deleted /\ row.age = 2
Purgeable == Kept /\ row.deleted /\ ~row.kept

SweepSelects ==
  /\ sweep = Idle
  /\ Stale \/ Purgeable
  /\ sweep' = [pc |-> "objects", thumb |-> row.thumb]
  /\ UNCHANGED <<row, store, subject, call, deaths, blipped, torn>>

SweepObjects ==
  /\ sweep.pc = "objects"
  /\ DeletesObjects(sweep.thumb)
  /\ sweep' = [sweep EXCEPT !.pc = "row"]
  /\ UNCHANGED <<row, subject, call, deaths, torn>>

(* By the id alone, whatever has become of the row.                        *)
SweepRow ==
  /\ sweep.pc = "row"
  /\ row' = IF Kept THEN [row EXCEPT !.status = "swept"] ELSE row
  /\ sweep' = Idle
  /\ UNCHANGED <<store, subject, call, deaths, blipped, torn>>

SweepDies ==
  /\ sweep # Idle /\ deaths < MaxDeaths
  /\ sweep' = Idle
  /\ deaths' = deaths + 1
  /\ torn' = (torn \/ sweep.pc = "row")
  /\ UNCHANGED <<row, store, subject, call, blipped>>

(* The quarter of an hour of the urls, then the day of the sweep.          *)
Ages ==
  /\ row.status # "none" /\ row.age < 2
  /\ row' = [row EXCEPT !.age = @ + 1]
  /\ UNCHANGED <<store, subject, call, sweep, deaths, blipped, torn>>

(* Seven days after its deletion.                                          *)
RetentionEnds ==
  /\ row.deleted /\ row.age = 2 /\ row.kept
  /\ row' = [row EXCEPT !.kept = FALSE]
  /\ UNCHANGED <<store, subject, call, sweep, deaths, blipped, torn>>

Confirm(c) ==
  ConfirmReads(c) \/ Head(c) \/ DropObject(c) \/ EraseRow(c) \/ HeadThumbnail(c) \/ Swap(c)
Delete(c) == DeleteReads(c) \/ DeleteObjects(c) \/ SoftDelete(c)
SweepStep == SweepSelects \/ SweepObjects \/ SweepRow

Next ==
  \/ CreateUpload \/ Put \/ SubjectDeleted
  \/ \E c \in Calls : Confirm(c) \/ Delete(c) \/ CallFails(c) \/ CallDies(c)
  \/ SweepStep \/ SweepDies
  \/ Ages \/ RetentionEnds

Spec == Init /\ [][Next]_vars

(* Time passes and the sweep runs.  Nothing is owed by the store, by       *)
(* requests or by clients.                                                 *)
FairSpec ==
  /\ Spec
  /\ WF_vars(SweepStep)
  /\ WF_vars(Ages) /\ WF_vars(RetentionEnds)

----------------------------------------------------------------------------
(* Properties.                                                             *)

Steps == {"idle", "head", "drop", "erase", "thumb", "swap", "objects", "soft", "row"}
Gone == {"discarded", "swept"}
Runs == [pc : Steps, thumb : BOOLEAN]

(* Types; and nothing is swept within its first day.                       *)
TypeOK ==
  /\ row \in [status : {"none", "pending", "uploaded"} \union Gone, deleted : BOOLEAN,
              thumb : BOOLEAN, age : 0 .. 2, kept : BOOLEAN]
  /\ store \in [main : {"absent", "fits", "large"}, thumb : BOOLEAN]
  /\ subject \in BOOLEAN
  /\ call \in [Calls -> Runs]
  /\ sweep \in Runs
  /\ deaths \in 0 .. MaxDeaths
  /\ blipped \in BOOLEAN /\ torn \in BOOLEAN
  /\ sweep # Idle => row.age = 2

Served == row.status = "uploaded" /\ ~row.deleted

(* Somebody has removed objects and is about to remove the row.            *)
Removing ==
  \/ \E c \in Calls : call[c].pc \in {"erase", "soft"}
  \/ sweep.pc = "row"

(* What is served is in the store: a confirmation that overlaps another    *)
(* one, a deletion or the sweep does not leave a row without its file,     *)
(* unless a process died between the two.                                  *)
ServedIsStored == Served /\ store.main = "absent" => Removing \/ torn

(* Where the sweep removed the row no object is left, whoever died on the  *)
(* way: it comes back for what it left, and the urls are spent by then.    *)
(* Except for deletions the store failed, and for a thumbnail the row does *)
(* not name.                                                               *)
NothingLeftBehind ==
  row.status = "swept" /\ ~blipped =>
    store.main = "absent" /\ (store.thumb => ~row.thumb)

(* What is never confirmed, or deleted, is collected, also while the store *)
(* answers nobody.                                                         *)
IsCollected == row.status = "pending" \/ row.deleted ~> Served \/ row.status \in Gone

----------------------------------------------------------------------------
(* What the code does not keep: TLC refutes it, see README, section 4.     *)

(* A confirmation that has won is not taken back: what is uploaded goes    *)
(* only by a deletion.                                                     *)
UploadedStays == [][Served => row'.status = "uploaded"]_vars

=============================================================================
