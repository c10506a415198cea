--------------------------- MODULE DispatchRestore ---------------------------
(***************************************************************************)
(* Dispatch with an operator who runs `bentod dump-db` and later, with the *)
(* units stopped as the command asks, `bentod restore-db`.  The runners    *)
(* keep their fences.  bentod has no recovery mode (MULTI-NODE 11.4        *)
(* describes one): after the copy is back, `serve` simply starts.          *)
(***************************************************************************)
EXTENDS Dispatch

VARIABLE backup          \* the copy: the lease row and the generations

restoreVars == <<vars, backup>>

RestoreInit ==
  /\ Init
  /\ backup = [lease |-> lease, generation |-> generation]

Backup ==
  /\ backup' = [lease |-> lease, generation |-> generation]
  /\ UNCHANGED vars

Restore ==
  /\ \A c \in Controllers : ~Live(c)
  /\ lease' = backup.lease
  /\ generation' = backup.generation
  /\ UNCHANGED <<clock, serve, held, envelope, fenceVars, backup>>

RestoreNext ==
  \/ Next /\ UNCHANGED backup
  \/ Backup
  \/ Restore

RestoreSpec == RestoreInit /\ [][RestoreNext]_restoreVars
==============================================================================
