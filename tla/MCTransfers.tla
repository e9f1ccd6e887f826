---------------------------- MODULE MCTransfers ----------------------------
(***************************************************************************)
(* A file on its way in and out.  In: the upload from the form to the      *)
(* link, UploadForm, and what the tables make of the file's name, type and *)
(* first bytes, FileTypes.  Out: the download seen from outside,           *)
(* BurnOnRead, and from inside, StreamPipe.  The four share no variable: a *)
(* behaviour is one of the first, the second, the third or the fourth, as  *)
(* `part` says from the start.                                             *)
(***************************************************************************)
EXTENDS BurnOnRead, TLC

CONSTANTS
  MaxChunks,
  Create, Edit, Files, Size, Signed, MagicSize, Limit, Keys, Stuck, FormLinks, Edited,
  MaxRestarts, MaxChoices,
  short, good, bad, big,
  Exts, Mimes, Heads, Sizes

VARIABLES
  checked, intact, stage, chunks, dest, finished, timer, listening, settled, unhandled, exited,
  form, store, rows, secret, restarts, choices, provider,
  ext, mime, head, size, way, asked, served,
  part

Pipe == INSTANCE StreamPipe
Form == INSTANCE UploadForm WITH Links <- FormLinks
Types == INSTANCE FileTypes WITH stage <- way

ASSUME StreamAssumption == Pipe!PipeAssumption
ASSUME FormAssumption == Form!UploadAssumption /\ Form!UploadNoneAssumption
ASSUME TypesAssumption == Types!TypesAssumption

pipeVars == <<checked, intact, stage, chunks, dest, finished, timer, listening,
              settled, unhandled, exited>>
formVars == <<form, store, rows, secret, restarts, choices, provider>>
typeVars == <<ext, mime, head, size, way, asked, served>>
allVars == <<vars, pipeVars, formVars, typeVars, part>>

Reading == part = "reading"
Piping == part = "piping"
Sending == part = "sending"
Typing == part = "typing"

\* One empty file, too short for a signature, one as it should be, one with a wrong
\* signature and one beyond the limit.
MCFiles == {short, good, bad, big}
MCSize == short :> 0 @@ good :> 2 @@ bad :> 1 @@ big :> 3
MCSigned == {good, big}

MCExts == {"jpg", "jpeg", "png", "gif", "webp", "ico", "pdf", "zip", "7z", "exe",
           "txt", "csv", "ts", "mp4", "ogg", "mp3"}
MCMimes == {"application/zip", "application/x-zip-compressed", "application/x-7z-compressed",
            "application/pdf", "image/jpeg", "image/jpg", "image/png", "image/gif", "image/webp",
            "application/octet-stream", "text/plain", "video/mp4"}
MCHeads == {"jpg", "png", "gif", "pdf", "zip", "7z", "webp", "none"}

\* Of the initial states of a part that rests one will do; and of the keys, for
\* the file of the edited link.
TransfersInit ==
  /\ Init /\ Pipe!Init /\ Form!Init /\ Types!Init
  /\ ~ Reading => ~ cloud /\ queue = "redis"
  /\ ~ Piping => checked /\ intact
  /\ ~ Sending => provider = "local" /\ (Edit # {} => rows[Edited].name = good)
  /\ Edit # {} => rows[Edited].key = CHOOSE k \in Keys : TRUE
  /\ ~ Typing => ext = "jpg" /\ mime = "image/jpeg" /\ head = "jpg" /\ size = 1

DownloadsInit == part \in {"reading", "piping"} /\ TransfersInit
UploadsInit == part \in {"sending", "typing"} /\ TransfersInit

TransfersNext ==
  \/ Reading /\ Next /\ UNCHANGED <<pipeVars, formVars, typeVars, part>>
  \/ Piping /\ Pipe!Next /\ UNCHANGED <<vars, formVars, typeVars, part>>
  \/ Sending /\ Form!Next /\ UNCHANGED <<vars, pipeVars, typeVars, part>>
  \/ Typing /\ Types!Next /\ UNCHANGED <<vars, pipeVars, formVars, part>>

\* A download: a handler goes on to its end, handlers are registered, workers take
\* jobs, and timers fire.
DownloadsSpec ==
  /\ DownloadsInit
  /\ [][TransfersNext]_allVars
  /\ WF_vars(Reading /\ Register)
  /\ \A d \in Downloads :
       /\ WF_vars(Reading /\ (OpenFile(d) \/ StreamEnds(d) \/ QueueBurn(d)))
       /\ WF_vars(Reading /\ BurnJob(d))
  /\ WF_pipeVars(Piping /\ Pipe!Timeout)
  /\ WF_pipeVars(Piping /\ Pipe!ForceExit)

\* An upload: bytes arrive, and whoever has to answer does.
UploadsSpec ==
  /\ UploadsInit
  /\ [][TransfersNext]_allVars
  /\ \A k \in Keys : WF_formVars(Sending /\ Form!ReceiveBytes(k))
  /\ \A p \in Form!Pages : WF_formVars(Sending /\ Form!PageStep(p))

-----------------------------------------------------------------------------
(* Properties *)

\* A link disappears for a reason and a burn is given up for one; a response that
\* finished is whole.
DownloadsInv == ReadingInv /\ Pipe!PipeInv

\* StreamPipe's: no later event takes the caller's answer back.
SettledForGood == Pipe!SettledForGood

\* StreamPipe's: the caller is always answered, or the process ends.
PipeSettles == Piping => Pipe!PipeSettles

\* A link has all of the file that its name and checksum say; and what a file was
\* declared to be, what it is stored for and what it is shown and served as agree.
UploadsInv ==
  /\ Form!TypeOK /\ Form!RowHasWholeFile /\ Form!RowIsWhatWasChosen /\ Form!SumIsOfFile
  /\ Types!PreviewedAsDeclared /\ Types!ServedAsShown /\ Types!LimitsHold
  /\ Types!StoredIsSigned

\* UploadForm's: no file is lost sight of, and every submission ends.
KeptOrDeleted == Form!KeptOrDeleted
SubmitEnds == Form!SubmitEnds
=============================================================================
