-------------------------------- MODULE Ota ---------------------------------
(***************************************************************************)
(* net/OtaService.cpp: an image uploaded in chunks through the library's   *)
(* one Updater, and the restart that puts it in force.  An upload is its   *)
(* first chunk, its last one with the answer, or a connection that breaks  *)
(* in between, which nothing tells the device.                             *)
(***************************************************************************)
EXTENDS Naturals

CONSTANTS
  Uploader,     \* those who may be sending an image
  Nobody

VARIABLES
  sending,      \* whether each is in the middle of an upload
  authorised,   \* whether each of these was let in at its beginning
  writing,      \* inProgress_
  failed,       \* lastError_ is set
  opened,       \* what the Updater has an image begun of, or "nothing"
  owner,        \* whose chunks the begun image has, Nobody if not one upload's
  staged,       \* of each part, what the next start runs or mounts instead, if any
  restarting    \* restartAt_ is set

update == <<sending, authorised, writing, failed, opened, owner, staged, restarting>>

Part == {"program", "files"}
Images == [Part -> {"none", "torn", "whole"}]
NoImage == [part \in Part |-> "none"]

OtaOK ==
  /\ sending \in [Uploader -> BOOLEAN] /\ authorised \in [Uploader -> BOOLEAN]
  /\ {writing, failed, restarting} \subseteq BOOLEAN
  /\ opened \in Part \cup {"nothing"}
  /\ owner \in Uploader \cup {Nobody}
  /\ staged \in Images

Sending(u) == sending' = [sending EXCEPT ![u] = TRUE]
Sent(u) ==
  /\ sending' = [sending EXCEPT ![u] = FALSE]
  /\ authorised' = [authorised EXCEPT ![u] = FALSE]

\* scheduleRestart.
ScheduleRestart ==
  /\ restarting' = TRUE
  /\ UNCHANGED <<sending, authorised, writing, failed, opened, owner, staged>>

Admitted(u, yes) == authorised' = [authorised EXCEPT ![u] = yes]

\* The first chunk, of one who has not logged in: asked to once, here.
FirstRefused(u) ==
  /\ ~sending[u] /\ Sending(u) /\ Admitted(u, FALSE)
  /\ UNCHANGED <<writing, failed, opened, owner, staged, restarting>>

\* beginUpdate with the first chunk.  fits: the size check; the library refuses
\* to begin an image while it has one begun.  An image of the file system is
\* written where the files are, and is in their place from then on.
FirstChunk(u, part, fits) ==
  /\ ~sending[u] /\ Sending(u) /\ Admitted(u, TRUE)
  /\ IF fits /\ opened = "nothing"
     THEN /\ writing' = TRUE /\ failed' = FALSE /\ opened' = part /\ owner' = u
          /\ staged' = IF part = "files" THEN [staged EXCEPT ![part] = "torn"] ELSE staged
     ELSE failed' = TRUE /\ UNCHANGED <<writing, opened, owner, staged>>
  /\ UNCHANGED restarting

\* The connection breaks, and the image stays begun.
Broken(u) ==
  /\ sending[u] /\ Sent(u)
  /\ owner' = IF owner = u THEN Nobody ELSE owner
  /\ UNCHANGED <<writing, failed, opened, staged, restarting>>

\* Mutant: the answer looks at the library's error and not at its own.
AnsweredHalf(bad) ==
  /\ writing' = FALSE
  /\ restarting' = (restarting \/ opened # "nothing")

\* The answer to the request: a restart unless something failed.
Answered(bad) ==
  /\ writing' = FALSE
  /\ restarting' = (restarting \/ ~bad)

\* The request is answered, unless its sender was never let in; chunks that
\* were being written then go on being expected, but for a failure.
Ended(u, bad) ==
  IF authorised[u] THEN Answered(bad)
  ELSE writing' \in {writing, writing /\ ~bad} /\ UNCHANGED restarting

\* The last chunk: written, if anything is being written, whoever began that,
\* and the image finished.  ok: whether flash and library are content.
LastChunk(u, ok) ==
  /\ sending[u] /\ Sent(u)
  /\ IF ~writing
     THEN UNCHANGED <<failed, opened, owner, staged>> /\ Ended(u, failed)
     ELSE LET done == ok /\ opened # "nothing" IN
          /\ opened' = "nothing" /\ owner' = Nobody
          /\ staged' = IF ~done THEN staged
                       ELSE [staged EXCEPT ![opened] = IF owner = u THEN "whole" ELSE "torn"]
          /\ failed' = (failed \/ ~done)
          /\ Ended(u, failed \/ ~done)

\* A start: the image staged is copied, and none is left.
BootOta ==
  /\ sending' = [u \in Uploader |-> FALSE] /\ authorised' = [u \in Uploader |-> FALSE]
  /\ writing' = FALSE /\ failed' = FALSE /\ restarting' = FALSE
  /\ opened' = "nothing" /\ owner' = Nobody /\ staged' = NoImage

=============================================================================
