---------------------------- MODULE Certificates ----------------------------
(***************************************************************************)
(* The wildcard certificate of the HTTP proxy: crates/tlscert over the     *)
(* ACME DNS-01 challenge, as bentod/src/proxyd.rs runs it.  The process    *)
(* loads the stored pair, issues a certificate when none is stored or the  *)
(* stored one is near its end, stores the pair in two files, and serves.   *)
(*                                                                         *)
(* A certificate is its number in order of issue; 0 is none.  Its age is   *)
(* fresh, due (less than 30 days left) or expired.  An authorization and   *)
(* the TXT record that answers it are one value.  The background renewal   *)
(* task (Manager::manage) has no caller and so no action here.             *)
(***************************************************************************)
EXTENDS Naturals

CONSTANTS Auth,          \* the authorizations of one order, one for each subject
          MaxIssued,     \* bound: certificates issued
          MaxCrtFaults   \* bound: failed calls and crashes

VARIABLE crt

crtvars == <<crt>>

Generation == 1..MaxIssued
CrtStage == {"down", "ensure", "account", "order", "authorize", "propagate", "poll", "finalize",
             "cleanup", "key", "certificate", "serving"}

Certificate ==
  [proc : CrtStage,
   key : 0..MaxIssued, cert : 0..MaxIssued,        \* the two files
   live : 0..MaxIssued,                            \* what the resolver serves
   issued : 0..MaxIssued, age : [Generation -> {"fresh", "due", "expired"}],
   account : {"none", "ours", "other"},
   pending : SUBSET Auth, asked : SUBSET Auth,     \* asked: the one being answered
   records : SUBSET Auth, dns : SUBSET Auth,       \* held by the process, at the provider
   orphans : SUBSET Auth,                          \* records whose removal failed or was cut off
   failed : BOOLEAN, faults : 0..MaxCrtFaults]

Init ==
  \E account \in {"none", "ours", "other"} :
    crt = [proc |-> "down", key |-> 0, cert |-> 0, live |-> 0, issued |-> 0,
           age |-> [g \in Generation |-> "fresh"], account |-> account,
           pending |-> {}, asked |-> {}, records |-> {}, dns |-> {}, orphans |-> {},
           failed |-> FALSE, faults |-> 0]

At(stage) == crt.proc = stage
CanFail == crt.faults < MaxCrtFaults

-----------------------------------------------------------------------------
(* Manager::new and ensure_certificate.                                    *)

\* The stored pair is loaded when both files are there and belong together,
\* and absent when neither is; anything else is refused and the process ends.
load_certificate == crt.key = crt.cert

new ==
  /\ At("down") /\ load_certificate
  /\ crt' = [crt EXCEPT !.proc = "ensure", !.live = crt.cert]

renewal_delay_is_zero == crt.live = 0 \/ crt.age[crt.live] # "fresh"

ensure_certificate ==
  /\ At("ensure")
  /\ crt' = [crt EXCEPT !.proc = IF renewal_delay_is_zero THEN "account" ELSE "serving"]

\* A failed call ends manage_sync, and the proxy with it.
Stopped(c) == [c EXCEPT !.proc = "down", !.live = 0, !.pending = {}, !.asked = {}, !.failed = FALSE]

\* The stored account must be of the configured directory; a new one is saved.
load_or_create_account ==
  /\ At("account")
  /\ \/ crt.account = "other" /\ crt' = Stopped(crt)
     \/ crt.account # "other" /\ crt' = [crt EXCEPT !.proc = "order", !.account = "ours"]
     \/ CanFail /\ crt' = Stopped([crt EXCEPT !.faults = @ + 1])

\* The order asks for every subject; the server may remember some as valid.
new_order ==
  /\ At("order") /\ crt.issued < MaxIssued
  /\ \/ \E pending \in SUBSET Auth :
          crt' = [crt EXCEPT !.proc = "authorize", !.pending = pending]
     \/ CanFail /\ crt' = Stopped([crt EXCEPT !.faults = @ + 1])

-----------------------------------------------------------------------------
(* complete_order: a record for each pending authorization, one at a time. *)

Fails == crt' = [crt EXCEPT !.proc = "cleanup", !.failed = TRUE, !.asked = {}, !.faults = @ + 1]

\* The provider creates the record; an answer lost on the way back leaves a
\* record the process does not hold.
present ==
  /\ At("authorize")
  /\ \E a \in crt.pending :
       \/ crt' = [crt EXCEPT !.proc = "propagate", !.asked = {a}, !.dns = @ \cup {a},
                             !.records = @ \cup {a}]
       \/ CanFail /\ Fails
       \/ CanFail /\ crt' = [crt EXCEPT !.proc = "cleanup", !.failed = TRUE, !.faults = @ + 1,
                                        !.dns = @ \cup {a}, !.orphans = @ \cup {a}]

\* The record is seen in DNS and the challenge declared ready, or the wait
\* runs out of time.
wait_for_propagation ==
  /\ At("propagate")
  /\ \/ crt' = [crt EXCEPT !.proc = "authorize", !.pending = @ \ crt.asked, !.asked = {}]
     \/ CanFail /\ Fails

poll_ready ==
  /\ At("authorize") /\ crt.pending = {}
  /\ \/ crt' = [crt EXCEPT !.proc = "finalize"]
     \/ CanFail /\ Fails

finalize ==
  /\ At("finalize")
  /\ \/ crt' = [crt EXCEPT !.proc = "cleanup", !.issued = @ + 1]
     \/ CanFail /\ Fails

\* Mutant of RemovesRecords: an issue that failed leaves its records behind.
RemovesOnSuccess(kept) == IF crt.failed THEN crt.dns ELSE crt.dns \ (crt.records \ kept)

\* Every record held is removed from the provider, but for the calls that fail.
RemovesRecords(kept) == crt.dns \ (crt.records \ kept)

\* Cleanup runs whether or not the order completed.  A certificate whose
\* cleanup failed is discarded.
cleanup_records ==
  /\ At("cleanup")
  /\ \E kept \in SUBSET crt.records :
       LET done == [crt EXCEPT !.dns = RemovesRecords(kept), !.records = {}, !.orphans = @ \cup kept,
                               !.faults = IF kept = {} THEN @ ELSE @ + 1] IN
       /\ kept # {} => CanFail
       /\ crt' = IF crt.failed \/ kept # {} THEN Stopped(done) ELSE [done EXCEPT !.proc = "key"]

-----------------------------------------------------------------------------
(* The pair on disk (storage::atomic_write, twice), then the resolver.     *)

write_key ==
  /\ At("key")
  /\ \/ crt' = [crt EXCEPT !.proc = "certificate", !.key = crt.issued]
     \/ CanFail /\ crt' = Stopped([crt EXCEPT !.faults = @ + 1])

write_certificate ==
  /\ At("certificate")
  /\ \/ crt' = [crt EXCEPT !.proc = "serving", !.cert = crt.issued, !.live = crt.issued]
     \/ CanFail /\ crt' = Stopped([crt EXCEPT !.faults = @ + 1])

-----------------------------------------------------------------------------
(* The environment: shutdown, crashes, and the passing of time.            *)

\* serve returns and the manager is closed.
close == At("serving") /\ crt' = Stopped(crt)

Crash ==
  /\ ~At("down") /\ CanFail
  /\ crt' = Stopped([crt EXCEPT !.faults = @ + 1, !.records = {}, !.orphans = @ \cup crt.records])

Ages ==
  \E g \in 1..crt.issued :
    \/ crt.age[g] = "fresh" /\ crt' = [crt EXCEPT !.age[g] = "due"]
    \/ crt.age[g] = "due" /\ crt' = [crt EXCEPT !.age[g] = "expired"]

Steps == new \/ ensure_certificate \/ load_or_create_account \/ new_order \/ present \/ wait_for_propagation
           \/ poll_ready \/ finalize \/ cleanup_records \/ write_key \/ write_certificate

Next == Steps \/ close \/ Crash \/ Ages

-----------------------------------------------------------------------------
CertificatesTypeOK == crt \in Certificate

\* No challenge record is forgotten (tlscert/src/lib.rs issue): whatever
\* failed on the way, a record still at the provider is one the process
\* holds and will remove, or one whose removal failed or was cut off.  And
\* the pair keeps its order: the resolver serves the newest pair on disk,
\* and the certificate file is never newer than its key.
CertificateSound ==
  /\ crt.dns \subseteq crt.records \cup crt.orphans
  /\ crt.proc = "serving" => crt.live # 0 /\ crt.live = crt.cert /\ crt.live = crt.key
  /\ crt.cert <= crt.key
=============================================================================
