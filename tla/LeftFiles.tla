----------------------------- MODULE LeftFiles -----------------------------
(***************************************************************************)
(* The files that stay in storage although no link has them.  No one ever  *)
(* lists the storage to compare it with the table: what is left is left    *)
(* for good, so that it matters what can leave a file.  This is            *)
(* LinkLifecycle with a record of what does, each with the step at which   *)
(* it happens: storage answers false to a deletion and nobody looks, a     *)
(* restart cuts a call off, an update does not write the upload it brings, *)
(* or a row is deleted, or given another file, by somebody who read it     *)
(* before its file was replaced.                                           *)
(***************************************************************************)
EXTENDS LinkLifecycle

VARIABLE left   \* history: keys whose deletion has failed or been missed

leftVars == <<vars, left>>

\* The file that the next step of a call deletes.
Deleting(call) ==
  CASE call.pc = "create_cleanup" -> {call.new}
    [] call.pc \in {"unlink_old", "purge_file"} -> {call.old}
    [] OTHER -> {}

\* The key of a deletion that this step has tried in vain.
Refused ==
  {k \in Keys :
     /\ faults'.storage # faults.storage
     /\ \/ \E c \in Clients : request'[c] # request[c] /\ k \in Deleting(request[c])
        \/ \E v \in gc'.done \ gc.done : v.key = k
        \/ k \in deletions \ deletions'}

\* A call has an upload in hand, and puts it in a row or deletes it.
Brings(c, k) ==
  request[c].pc \in {"create", "create_cleanup", "update"} /\ request[c].new = k

\* An update has taken a file out of its row, and is going to delete it.
TakesAway(c, k) == request[c].pc = "unlink_old" /\ request[c].old = k

\* What this step, a restart, has cut off.
CutOff ==
  {k \in Keys : /\ faults'.crash # faults.crash
                /\ \E c \in Clients : Brings(c, k) \/ TakesAway(c, k)}

\* The uploads of updates that find no link, no row any more when they write, or whose
\* transaction fails: updateLink has no compensation.
Unwritten ==
  {k \in Keys :
     \/ k \in uploads \ uploads' /\ request' = request
     \/ \E c \in Clients :
          /\ request[c].pc = "update" /\ request[c].new = k
          /\ request'[c] # request[c]
          /\ faults'.db # faults.db \/ ~ Exists(request[c].link)}

\* Somebody has read the row of l when it had another file, and changes it now: an
\* update, a purge or a cleanup run.
ReadBefore(l) ==
  \/ \E c \in Clients : /\ request'[c] # request[c] /\ request[c].link = l
                        /\ request[c].pc \in {"update", "purge_row"}
                        /\ request[c].old # links[l].file
  \/ gc' # gc /\ \E v \in gc.done : v.link = l /\ v.key # links[l].file

\* The files that rows have lost to them.
Overtaken ==
  {links[l].file : l \in {m \in LinkIds : /\ Exists(m) /\ ReadBefore(m)
                                          /\ \/ links'[m] = NoRow
                                             \/ links'[m].file # links[m].file}}

LeftInit == Init /\ left = {}

LeftNext ==
  Next /\ left' = left \cup Refused \cup CutOff \cup Unwritten \cup Overtaken

LeftSpec == LeftInit /\ [][LeftNext]_leftVars

-----------------------------------------------------------------------------
(* Properties *)

\* A file that is in no row, with no form and in no call's hands was left by a refused
\* deletion, by a restart, by an update that did not write it, or by somebody who had
\* read its row before the file came there.  So a createLink whose transaction fails
\* leaves none, and neither does an update, a purge or a cleanup run that nothing has
\* overtaken.
LeftForAReason ==
  \A k \in files :
    \/ k \in uploads \/ k \in left
    \/ \E l \in LinkIds : Exists(l) /\ links[l].file = k
    \/ \E c \in Clients : Brings(c, k) \/ TakesAway(c, k)

-----------------------------------------------------------------------------
(* The inductive invariant behind it: whoever is about to delete a row has   *)
(* dealt with the file that it read there.                                   *)

\* The deletion of a file has been tried.
Dealt(k) == k \in issued \ uploads /\ (k \in files => k \in left)

\* A call took the upload it brings, and a purge that comes to its row has tried to
\* delete the file.
CallsAreExplained ==
  \A c \in Clients :
    /\ request[c].new \in (issued \ uploads) \cup {NoKey}
    /\ request[c].pc = "purge_row" => Dealt(request[c].old)

\* The run has tried to delete the files of its done, and deletes no other rows.
RunIsExplained ==
  /\ gc.pc \in {"idle", "select"} => gc.batch = {} /\ gc.done = {}
  /\ \A v \in gc.done : Dealt(v.key)

LeftInv ==
  IInv /\ left \subseteq Keys /\ LeftForAReason /\ CallsAreExplained /\ RunIsExplained
=============================================================================
