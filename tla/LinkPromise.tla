----------------------------- MODULE LinkPromise -----------------------------
(***************************************************************************)
(* What the owner of a link may rely on, whatever calls, cleanup runs and  *)
(* restarts do inside.  An upload is given to one link, once.  A link that *)
(* was created is kept, with a file to serve, until somebody has a reason  *)
(* to remove it; only then may it lose its file, and its place.  A link    *)
(* that is gone stays gone.                                                *)
(***************************************************************************)
CONSTANTS
  Links,  \* ids of links
  Keys,   \* keys of uploads
  NoKey   \* no file to serve

VARIABLES
  phase,    \* Links -> "new", "kept", "condemned" or "gone"
  content,  \* Links -> the file the link serves, or NoKey
  upload,   \* Keys -> "none", "waiting" for a link, or "spent"
  reasons   \* the links that are due for removal, or asked to be purged, now

promiseVars == <<phase, content, upload, reasons>>

PromiseInit ==
  /\ phase = [l \in Links |-> "new"]
  /\ content = [l \in Links |-> NoKey]
  /\ upload = [k \in Keys |-> "none"]
  /\ reasons = {}

-----------------------------------------------------------------------------
(* What one step may do to an upload, and to a link. *)

UploadStep(k) ==
  \/ upload'[k] = upload[k]
  \/ upload[k] = "none" /\ upload'[k] = "waiting"
  \/ upload[k] = "waiting" /\ upload'[k] = "spent"

\* The link gets a file that no link has had before.
Given(l) ==
  \E k \in Keys :
    upload[k] = "waiting" /\ upload'[k] = "spent" /\ content'[l] = k

\* The link has its place, and may have been found a reason to lose it.
InPlace(l) ==
  phase'[l] = "kept" \/ (phase'[l] = "condemned" /\ l \in reasons')

Stay(l) == phase'[l] = phase[l] /\ content'[l] = content[l]

Publish(l) == phase[l] = "new" /\ InPlace(l) /\ Given(l)

Replace(l) ==
  \/ phase[l] = "kept" /\ InPlace(l) /\ Given(l)
  \/ phase[l] = "condemned" /\ phase'[l] = "condemned" /\ Given(l)

Condemn(l) == phase[l] = "kept" /\ InPlace(l) /\ content'[l] = content[l]

LoseFile(l) ==
  phase[l] = "condemned" /\ phase'[l] = "condemned" /\ content'[l] = NoKey

Remove(l) == phase[l] = "condemned" /\ phase'[l] = "gone" /\ content'[l] = NoKey

LinkStep(l) ==
  Stay(l) \/ Publish(l) \/ Replace(l) \/ Condemn(l) \/ LoseFile(l) \/ Remove(l)

\* No two links serve the same file.
Apart ==
  \A l, m \in Links : content'[l] = content'[m] /\ content'[l] # NoKey => l = m

PromiseNext ==
  /\ \A k \in Keys : UploadStep(k)
  /\ \A l \in Links : LinkStep(l)
  /\ Apart

Promise == PromiseInit /\ [][PromiseNext]_promiseVars
=============================================================================
