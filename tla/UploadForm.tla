------------------------------ MODULE UploadForm ------------------------------
(***************************************************************************)
(* An upload from the browser to the link: the form (fileUploader in       *)
(* public/js/admin-components.js), the upload intent, the stream through   *)
(* the server into the local storage (uploadService, LocalStorageStrategy) *)
(* or straight to the cloud, and the request that creates or updates the   *)
(* link.  Bytes come in units; the signature is in the first MagicSize.    *)
(***************************************************************************)
EXTENDS Integers, FiniteSets

CONSTANTS
  Create,      \* the pages with views/admin/new.ejs
  Edit,        \* the pages with views/admin/edit.ejs, all of one link
  Files,       \* what the user can choose
  Size,        \* of each file
  Signed,      \* the files that begin with a known signature
  MagicSize,   \* MAGIC_CHECK_SIZE
  Limit,       \* MAX_FILE_SIZE_BYTES
  Keys,        \* storage keys
  Stuck,       \* bound: those whose deletion may not succeed
  Links,       \* ids of links
  Edited,      \* the link of the edit pages
  MaxRestarts, \* bound: restarts of the server
  MaxChoices,  \* bound: times a file is chosen
  None

Pages == Create \cup Edit

UploadAssumption ==
  /\ Create \cap Edit = {}
  /\ Size \in [Files -> Nat] /\ Signed \subseteq Files
  /\ MagicSize \in Nat \ {0} /\ Limit \in Nat \ {0}
  /\ MaxRestarts \in Nat /\ MaxChoices \in Nat
  /\ Edited \in Links
  /\ IsFiniteSet(Pages) /\ IsFiniteSet(Keys)

VARIABLES
  form,     \* of each page
  store,    \* what was ever written under each key
  rows,     \* the links
  secret,   \* encryptionKeys[0]: each restart may put a new one first
  restarts, choices,
  provider  \* local or cloud: STORAGE_PROVIDER

vars == <<form, store, rows, secret, restarts, choices, provider>>

Idle(f) == [stage |-> "open", file |-> f, name |-> None, key |-> None, sum |-> None,
            touched |-> FALSE, old |-> None]

\* "write": updateLink has read its row; "unlink": the old file is to go; "cleanup":
\* the upload is, as its link could not be created.
Waiting == {"intent", "upload", "save", "write", "unlink", "cleanup", "saved", "refused"}

\* A digest stands for the bytes it was taken of.
Digest(f, n) == [file |-> f, bytes |-> n]
Digests == [file : Files \cup {None}, bytes : Nat]

FormShape == [stage : Waiting \cup {"open", "done"}, file : Files \cup {None},
              name : Files \cup {None}, key : Keys \cup {None},
              sum : Digests \cup {None}, touched : BOOLEAN, old : Keys \cup {None}]

\* "left": whole, though it was to be deleted.
StoreStages == {"writing", "cut", "whole", "left", "deleted"}
StoreShape == [file : Files \cup {None}, got : Nat, secret : Nat, stage : StoreStages]
RowShape == [key : Keys, name : Files \cup {None}, sum : Digests \cup {None},
             touched : BOOLEAN]

\* null and undefined are nothing that is stored.
UploadNoneAssumption ==
  None \notin Files \cup Keys \cup Digests \cup StoreShape \cup RowShape

SizeOf(f) == IF f = None THEN 0 ELSE Size[f]

-----------------------------------------------------------------------------
(* The form *)

\* @change: the input is never disabled.  error is set by its size, and checked
\* by the button.
ChooseFile(p, f) ==
  /\ form[p].stage # "done" /\ form[p].file # f
  /\ choices < MaxChoices /\ choices' = choices + 1
  /\ form' = [form EXCEPT ![p].file = f, ![p].touched = @ \/ form[p].stage = "intent"]
  /\ UNCHANGED <<store, rows, secret, restarts, provider>>

\* Bound: a key for every upload that begins.
KeyLeft ==
  Cardinality({k \in Keys : store[k] = None}) > Cardinality({p \in Pages : form[p].stage = "intent"})

\* handleSubmit: the name is taken now; without a file an edit goes on to the
\* link.
Submit(p) ==
  /\ form[p].stage = "open" /\ SizeOf(form[p].file) <= Limit
  /\ p \in Create => form[p].file # None
  /\ KeyLeft
  /\ form' = [form EXCEPT ![p] = [Idle(form[p].file) EXCEPT
                                    !.stage = IF form[p].file = None THEN "save" ELSE "intent",
                                    !.name = form[p].file]]
  /\ UNCHANGED <<store, rows, secret, restarts, choices, provider>>

\* getUploadIntent answers, and the form sends the file that is chosen by now,
\* under a new key that the intent (cloud) or the upload (local) made up: which one
\* makes no difference.
IntentAnswered(p) ==
  LET k == CHOOSE j \in Keys : store[j] = None IN
  /\ form[p].stage = "intent"
  /\ form' = [form EXCEPT ![p].stage = "upload", ![p].key = k]
  /\ store' = [store EXCEPT ![k] = [file |-> form[p].file, got |-> 0, secret |-> secret,
                                    stage |-> "writing"]]
  /\ UNCHANGED <<rows, secret, restarts, choices, provider>>

\* A network error, or an answer that is none; an error under createLink or updateLink
\* is heard before or after.  An upload under way is cut: locally nobody learns of it,
\* and what was written stays; the cloud keeps no part.
NetworkError(p) ==
  /\ form[p].stage \in {"intent", "upload", "save", "saved"}
  /\ form' = [form EXCEPT ![p] = Idle(form[p].file)]
  /\ IF form[p].stage = "upload" /\ store[form[p].key].stage = "writing"
     THEN store' = [store EXCEPT ![form[p].key].stage =
                                   IF provider = "local" THEN "cut" ELSE "deleted"]
     ELSE UNCHANGED store
  /\ UNCHANGED <<rows, secret, restarts, choices, provider>>

-----------------------------------------------------------------------------
(* uploadService and saveLocalStream *)

\* validateBuffer is asked once MAGIC_CHECK_SIZE bytes are there.
BadSignature(k) == store[k].got >= MagicSize /\ store[k].file \notin Signed

\* The limit of busboy ends the stream without an error.
AtEnd(k) ==
  \/ store[k].got = SizeOf(store[k].file)
  \/ provider = "local" /\ store[k].got = Limit

Writing(k) == store[k] # None /\ store[k].stage = "writing"

ReceiveBytes(k) ==
  /\ Writing(k) /\ ~ AtEnd(k)
  /\ provider = "cloud" \/ ~ BadSignature(k)
  /\ store' = [store EXCEPT ![k].got = @ + 1]
  /\ UNCHANGED <<form, rows, secret, restarts, choices, provider>>

\* The pipeline is finished: the tag is on the disk.
Stored(k) ==
  /\ Writing(k) /\ AtEnd(k)
  /\ provider = "cloud" \/ ~ BadSignature(k)
  /\ store' = [store EXCEPT ![k].stage = "whole"]

\* Mutant: the digest is fed only until the signature is checked.
MutChecksum(k) ==
  Digest(store[k].file, IF store[k].got > MagicSize THEN MagicSize ELSE store[k].got)

\* The digest is over all that went through; a cloud upload has none.
Checksum(k) ==
  IF provider = "local" THEN Digest(store[k].file, store[k].got) ELSE None

UploadAnswered(p) ==
  LET k == form[p].key IN
  /\ form[p].stage = "upload"
  /\ Stored(k)
  /\ provider = "local" => store[k].file # None
  /\ form' = [form EXCEPT ![p].stage = "save", ![p].sum = Checksum(k)]
  /\ UNCHANGED <<rows, secret, restarts, choices, provider>>

\* delete: the entry goes, or stays as the strategy answers false or fails.
AfterDelete(k) ==
  {"deleted"} \cup (IF k \notin Stuck \/ store[k].stage = "deleted" THEN {}
                    ELSE {IF Writing(k) THEN "cut" ELSE "left"})

Delete(k) == \E x \in AfterDelete(k) : store' = [store EXCEPT ![k].stage = x]

\* Mutant: the rejection is never answered.
MutUploadRefused(p) ==
  /\ form[p].stage = "upload"
  /\ form[p].key # None /\ Writing(form[p].key)
  /\ BadSignature(form[p].key)
  /\ Delete(form[p].key)
  /\ UNCHANGED <<form, rows, secret, restarts, choices, provider>>

\* A signature that is not known, no file in the request, an error of the disk or
\* of the cloud: what was written is deleted, if it can be, and the form learns of it.
UploadRefused(p) ==
  /\ form[p].stage = "upload"
  /\ Writing(form[p].key)
  /\ form' = [form EXCEPT ![p].stage = "refused"]
  /\ Delete(form[p].key)
  /\ UNCHANGED <<rows, secret, restarts, choices, provider>>

-----------------------------------------------------------------------------
(* createLink and updateLink *)

Row(p) == [key |-> form[p].key, name |-> form[p].name, sum |-> form[p].sum,
           touched |-> form[p].touched]

LinkCreated(p, l) ==
  /\ form[p].stage = "save" /\ p \in Create
  /\ l # Edited /\ rows[l] = None
  /\ rows' = [rows EXCEPT ![l] = Row(p)]
  /\ form' = [form EXCEPT ![p].stage = "saved"]
  /\ UNCHANGED <<store, secret, restarts, choices, provider>>

\* Mutant: the file of a link that could not be created stays.
MutCreateRefused(p) ==
  /\ form[p].stage = "save" /\ p \in Create
  /\ form' = [form EXCEPT ![p].stage = "refused"]
  /\ UNCHANGED <<store, rows, secret, restarts, choices, provider>>

\* The insert fails: the file is to go, which is tried once.
CreateRefused(p) ==
  /\ form[p].stage = "save" /\ p \in Create
  /\ form' = [form EXCEPT ![p].stage = "cleanup"]
  /\ UNCHANGED <<store, rows, secret, restarts, choices, provider>>

CleanupUpload(p) ==
  /\ form[p].stage = "cleanup"
  /\ form' = [form EXCEPT ![p].stage = "refused"]
  /\ Delete(form[p].key)
  /\ UNCHANGED <<rows, secret, restarts, choices, provider>>

\* Only a new file changes what the row says of the file; a checksum is not
\* cleared.
Updated(p, old) ==
  IF form[p].key = None THEN old
  ELSE [Row(p) EXCEPT !.sum = IF @ = None THEN old.sum ELSE @]

\* findById: the file there is now will be the old one, whatever others write
\* meanwhile.
ReadLink(p) ==
  /\ form[p].stage = "save" /\ p \in Edit
  /\ form' = [form EXCEPT ![p].stage = "write", ![p].old = rows[Edited].key]
  /\ UNCHANGED <<store, rows, secret, restarts, choices, provider>>

\* The transaction commits.
WriteLink(p) ==
  /\ form[p].stage = "write"
  /\ rows' = [rows EXCEPT ![Edited] = Updated(p, @)]
  /\ form' = [form EXCEPT ![p].stage = IF form[p].key = None THEN "saved" ELSE "unlink"]
  /\ UNCHANGED <<store, secret, restarts, choices, provider>>

\* Only then the old file goes; the answer is the same if it does not.
UnlinkOld(p) ==
  /\ form[p].stage = "unlink"
  /\ form' = [form EXCEPT ![p].stage = "saved"]
  /\ Delete(form[p].old)
  /\ UNCHANGED <<rows, secret, restarts, choices, provider>>

\* The link is gone, or the update fails.
UpdateRefused(p) ==
  /\ form[p].stage \in {"save", "write"} /\ p \in Edit
  /\ form' = [form EXCEPT ![p].stage = "refused"]
  /\ UNCHANGED <<store, rows, secret, restarts, choices, provider>>

\* On success the browser leaves the page, else the button is enabled again.
FormAnswered(p) ==
  /\ form[p].stage \in {"saved", "refused"}
  /\ form' = [form EXCEPT ![p] = IF form[p].stage = "saved" THEN [@ EXCEPT !.stage = "done"]
                                 ELSE Idle(@.file)]
  /\ UNCHANGED <<store, rows, secret, restarts, choices, provider>>

-----------------------------------------------------------------------------
(* Restart, and what a download can read *)

\* The connections break, uploads are cut; a new secret may be put first, which makes
\* no difference to the cloud.
Restart(rotate) ==
  /\ restarts < MaxRestarts /\ restarts' = restarts + 1
  /\ rotate => provider = "local"
  /\ secret' = IF rotate THEN secret + 1 ELSE secret
  /\ form' = [p \in Pages |-> IF form[p].stage \in Waiting THEN Idle(form[p].file) ELSE form[p]]
  /\ store' = [k \in Keys |->
       IF Writing(k)
       THEN [store[k] EXCEPT !.stage = IF provider = "local" THEN "cut" ELSE "deleted"]
       ELSE store[k]]
  /\ UNCHANGED <<rows, choices, provider>>

\* getStream: the tag of a cut file does not match, and the only secret that is
\* tried is the first one.
Readable(k) ==
  /\ store[k] # None /\ store[k].stage = "whole"
  /\ provider = "local" => store[k].secret = secret

-----------------------------------------------------------------------------
(* Specification *)

\* The edited link, if there is one, was created by an upload that went well.
Init ==
  /\ provider \in {"local", "cloud"}
  /\ form = [p \in Pages |-> Idle(None)]
  /\ \E k \in Keys, f \in Files :
       /\ provider = "local" => f \in Signed /\ Size[f] <= Limit
       /\ store = [j \in Keys |-> IF j = k /\ Edit # {}
                                  THEN [file |-> f, got |-> Size[f], secret |-> 0, stage |-> "whole"]
                                  ELSE None]
       /\ rows = [l \in Links |-> IF l = Edited /\ Edit # {}
                                  THEN [key |-> k, name |-> f, touched |-> FALSE, sum |->
                                          IF provider = "local" THEN Digest(f, Size[f]) ELSE None]
                                  ELSE None]
  /\ secret = 0 /\ restarts = 0 /\ choices = 0

PageStep(p) ==
  \/ IntentAnswered(p)
  \/ UploadAnswered(p) \/ UploadRefused(p)
  \/ \E l \in Links : LinkCreated(p, l)
  \/ CreateRefused(p) \/ CleanupUpload(p)
  \/ ReadLink(p) \/ WriteLink(p) \/ UnlinkOld(p) \/ UpdateRefused(p)
  \/ FormAnswered(p)

Next ==
  \/ \E p \in Pages :
       \/ \E f \in Files \cup {None} : ChooseFile(p, f)
       \/ Submit(p) \/ NetworkError(p) \/ PageStep(p)
  \/ \E k \in Keys : ReceiveBytes(k)
  \/ \E rotate \in BOOLEAN : Restart(rotate)

Spec == Init /\ [][Next]_vars

\* Bytes arrive, and whoever has to answer does.
FairSpec ==
  /\ Spec
  /\ \A k \in Keys : WF_vars(ReceiveBytes(k))
  /\ \A p \in Pages : WF_vars(PageStep(p))

-----------------------------------------------------------------------------
(* Properties *)

\* Every variable has its type: no row is without a key, and no entry of the storage
\* longer than its file.
TypeOK ==
  /\ form \in [Pages -> FormShape]
  /\ store \in [Keys -> StoreShape \cup {None}]
  /\ \A k \in Keys : store[k] # None => store[k].got <= SizeOf(store[k].file)
  /\ rows \in [Links -> RowShape \cup {None}]
  /\ secret \in 0 .. restarts /\ restarts \in 0 .. MaxRestarts
  /\ provider \in {"local", "cloud"}

\* Every link has a file that was stored to its end and is not deleted under it,
\* however edits of one link overlap.
RowHasWholeFile ==
  \A l \in Links : rows[l] # None => store[rows[l].key].stage = "whole"

\* A link is of the file whose name it has, and of all of it, unless another file
\* was chosen while the intent was being asked for.
RowIsWhatWasChosen ==
  \A l \in Links : rows[l] # None /\ ~ rows[l].touched =>
    LET file == store[rows[l].key]
    IN  rows[l].name = file.file /\ file.got = SizeOf(file.file)

\* The checksum of a link, which a download is compared with, is of what is stored.
SumIsOfFile ==
  \A l \in Links : rows[l] # None /\ rows[l].sum # None =>
    rows[l].sum = Digest(store[rows[l].key].file, store[rows[l].key].got)

\* Somebody is still about to do something with a file: it is a link's, or somewhere
\* between its upload and its link, or to be deleted.
Known(k) ==
  \/ \E l \in Links : rows[l] # None /\ rows[l].key = k
  \/ \E p \in Pages :
       \/ form[p].key = k /\ form[p].stage \in {"upload", "save", "write", "cleanup"}
       \/ form[p].old = k /\ form[p].stage = "unlink"

\* The three ways to lose sight of a file: a request breaks off (network or restart),
\* an edit is refused and its upload stays, an edit replaces the file of an edit that
\* it did not see.
LostBy(p, k) ==
  \/ k \in {form[p].key, form[p].old} /\ form'[p].stage = "open"
  \/ form[p].key = k /\ p \in Edit /\ form'[p].stage = "refused"
  \/ form[p].old # k /\ form[p].stage = "write" /\ form'[p].stage = "unlink"

\* A whole file that a row or a form knows is not lost sight of, but in one of these
\* ways: it is deleted, or its deletion was tried and has failed.
KeptOrDeleted ==
  [][\A k \in Keys : Known(k) /\ store'[k].stage = "whole" =>
       Known(k)' \/ \E p \in Pages : LostBy(p, k)]_vars

\* The form never stays busy: whatever happens it is answered, or told.
SubmitEnds == \A p \in Pages : form[p].stage \in Waiting ~> form[p].stage \in {"open", "done"}

\* LocalStorageStrategy.js:80 "Enforce strict magic byte validation for ALL files
\* (no text/plain bypass)": what is stored locally has a known signature.
AllFilesAreValidated ==
  \A k \in Keys : store[k] # None /\ store[k].stage \in {"whole", "left"} =>
    store[k].file \in Signed

\* LocalStorageStrategy.js:131 "Clean up partial file on failure": no partial file
\* that nobody writes any more.
PartialFilesGo == \A k \in Keys : store[k] # None => store[k].stage # "cut"

\* readme.md:101 "rotate secrets without downtime or invalidating existing data":
\* the file of every link can be read.
RotationKeepsFiles == \A l \in Links : rows[l] # None => Readable(rows[l].key)

\* public/js/admin-components.js:27 "Checks strict size limits before attempting
\* upload": no file beyond the limit is sent.
SizeIsCheckedBefore ==
  \A k \in Keys : store[k] # None => SizeOf(store[k].file) <= Limit
=============================================================================
