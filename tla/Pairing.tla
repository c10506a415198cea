------------------------------ MODULE Pairing ------------------------------
(***************************************************************************)
(* Linking an unknown SSH key to an account.  A connection whose key the   *)
(* store does not know is offered a link: the frontend stores a pairing    *)
(* row, prints a URL and polls the row.  The owner of the account opens    *)
(* the URL in a browser where they are signed in, sees the fingerprint and *)
(* confirms.  The page reads the row, and a later transaction claims it by *)
(* its row id and stores the key.                                          *)
(*                                                                         *)
(* pairings.id is an INTEGER PRIMARY KEY without AUTOINCREMENT, so a new   *)
(* row takes the highest id in use plus one, and the id of a swept row can *)
(* come back; `made` tells the rows of one id apart.                       *)
(***************************************************************************)
EXTENDS Naturals, FiniteSets

CONSTANTS Key, Account, Conn, Page, MaxPairings, MaxKeyEdits

ASSUME PairingSizes == MaxPairings \in Nat

VARIABLES
  pairings,  \* the rows: [id, made, key, by, expired], by = {} or {user}
  keys,      \* ssh_keys: [key, user]
  conn,      \* the SSH connections
  page,      \* the browser confirmations
  made,      \* how many pairing rows have been stored
  swept,     \* the rows a sweep deleted after they had expired (history)
  edits      \* how many keys were added or removed by hand

pairingVars == <<pairings, keys, conn, page, made, swept, edits>>

PairingRow == [id : 1 .. MaxPairings, made : 1 .. MaxPairings, key : Key,
        by : SUBSET Account, expired : BOOLEAN]

\* told: the user this connection was told it is linked to; late: the
\* session's own deadline has passed.
IdleConn == [stage |-> "new"]

\* saw: the row the confirmation page was drawn from; got: the key it linked.
IdlePage == [stage |-> "new"]

PairingInit ==
  /\ pairings = {} /\ keys = {} /\ made = 0 /\ swept = {} /\ edits = 0
  /\ conn = [c \in Conn |-> IdleConn]
  /\ page = [p \in Page |-> IdlePage]

-----------------------------------------------------------------------------
(* The store.                                                              *)

ssh_key_by_fingerprint(k) == {r.user : r \in {s \in keys : s.key = k}}

RowsAt(i) == {r \in pairings : r.id = i}

\* Mutant of Sweepable: every unclaimed row is swept, the live ones too.
SweepsLive(rows) == {r \in rows : r.by = {}}

\* What create_pairing deletes first: expired rows nobody claimed.
Sweepable(rows) == {r \in rows : r.by = {} /\ r.expired}

\* The id SQLite gives the next row: one more than the largest that is left.
LargestId(rows) == CHOOSE n \in {r.id : r \in rows} : \A r \in rows : r.id <= n
NextId(rows) == 1 + (IF rows = {} THEN 0 ELSE LargestId(rows))

\* link_pairing's UPDATE: unused and unexpired.
Claimable(r) == r.by = {} /\ ~r.expired

-----------------------------------------------------------------------------
(* The SSH side: authenticate_key, offer_link, wait_for_link.              *)

\* authenticate_key: a known key is its user's session; an unknown one may
\* only be linked.
authenticate_key(c, k) ==
  /\ conn[c].stage = "new"
  /\ conn' = [conn EXCEPT ![c] =
                [stage |-> IF ssh_key_by_fingerprint(k) # {} THEN "user" ELSE "offer",
                 key |-> k, id |-> 0, made |-> 0, told |-> {}, late |-> FALSE]]
  /\ UNCHANGED <<pairings, keys, page, made, swept, edits>>

\* Linker.begin: create_pairing sweeps and inserts in one transaction.
begin(c) ==
  LET gone == Sweepable(pairings)
      left == pairings \ gone IN
  /\ conn[c].stage = "offer" /\ made < MaxPairings
  /\ made' = made + 1
  /\ pairings' = left \cup {[id |-> NextId(left), made |-> made', key |-> conn[c].key,
                             by |-> {}, expired |-> FALSE]}
  /\ swept' = swept \cup {r.made : r \in {s \in gone : s.expired}}
  /\ conn' = [conn EXCEPT ![c].stage = "wait", ![c].id = NextId(left), ![c].made = made']
  /\ UNCHANGED <<keys, page, edits>>

\* begin fails: the offer ends with exit code 1.
begin_fails(c) ==
  /\ conn[c].stage = "offer"
  /\ conn' = [conn EXCEPT ![c].stage = "failed"]
  /\ UNCHANGED <<pairings, keys, page, made, swept, edits>>

\* linked_user: the user of the row with this id; a swept row is no answer.
linked_user(i) == UNION {r.by : r \in RowsAt(i)}

\* One turn of wait_for_link: the row is read before the deadline is looked at.
wait_for_link(c) ==
  /\ conn[c].stage = "wait"
  /\ \/ /\ linked_user(conn[c].id) # {}
        /\ conn' = [conn EXCEPT ![c].stage = "linked", ![c].told = linked_user(conn[c].id)]
     \/ /\ linked_user(conn[c].id) = {} /\ conn[c].late
        /\ conn' = [conn EXCEPT ![c].stage = "expired"]
  /\ UNCHANGED <<pairings, keys, page, made, swept, edits>>

\* The client's input: ^C or ^D cancels; end of input only ends the watch for
\* them, so the wait may also go on to its end.
wait_input(c) ==
  /\ conn[c].stage = "wait"
  /\ conn' = [conn EXCEPT ![c].stage = "cancelled"]
  /\ UNCHANGED <<pairings, keys, page, made, swept, edits>>

\* Time: a row expires; the session's deadline, taken after the row was
\* stored, passes after that.
RowExpires(r) ==
  /\ ~r.expired /\ r.by = {}
  /\ pairings' = (pairings \ {r}) \cup {[r EXCEPT !.expired = TRUE]}
  /\ UNCHANGED <<keys, conn, page, made, swept, edits>>

DeadlinePasses(c) ==
  /\ conn[c].stage = "wait" /\ ~conn[c].late
  /\ \A r \in pairings : r.made = conn[c].made => r.expired
  /\ conn' = [conn EXCEPT ![c].late = TRUE]
  /\ UNCHANGED <<pairings, keys, page, made, swept, edits>>

-----------------------------------------------------------------------------
(* The browser side: resolve_link, link_confirm_response.                  *)

\* link_page_response: the page of a live pairing shows its fingerprint; any
\* other is the dead page, which leads nowhere.
link_page_response(p, u, r) ==
  /\ page[p].stage = "new"
  /\ Claimable(r)
  /\ page' = [page EXCEPT ![p] = [stage |-> "shown", user |-> u, saw |-> {r}, got |-> {}]]
  /\ UNCHANGED <<pairings, keys, conn, made, swept, edits>>

\* link_confirm_response, first step: resolve_link finds the row by the token
\* again, and again it must be live.
link_confirm_response(p) ==
  /\ page[p].stage = "shown"
  /\ page' = [page EXCEPT ![p].stage =
                IF \E r \in pairings, s \in page[p].saw : r.made = s.made /\ Claimable(r)
                THEN "linking" ELSE "dead"]
  /\ UNCHANGED <<pairings, keys, conn, made, swept, edits>>

\* Second step: link_pairing by row id, one transaction.  A key some account
\* holds rolls the claim back.
link_pairing(p) ==
  LET hit == {r \in pairings : (\E s \in page[p].saw : r.id = s.id) /\ Claimable(r)}
      take == {r \in hit : ssh_key_by_fingerprint(r.key) = {}} IN
  /\ page[p].stage = "linking"
  /\ page' = [page EXCEPT ![p].stage = IF take # {} THEN "linked" ELSE "refused",
                          ![p].got = {r.key : r \in take}]
  /\ pairings' = (pairings \ take) \cup {[r EXCEPT !.by = @ \cup {page[p].user}] : r \in take}
  /\ keys' = keys \cup {[key |-> r.key, user |-> page[p].user] : r \in take}
  /\ UNCHANGED <<conn, made, swept, edits>>

-----------------------------------------------------------------------------
(* Keys by hand: ssh-key add and remove, the account page, the API.        *)

\* insert_ssh_key: the fingerprint is UNIQUE over all users.
add_ssh_key(u, k) ==
  /\ edits < MaxKeyEdits /\ edits' = edits + 1
  /\ ssh_key_by_fingerprint(k) = {}
  /\ keys' = keys \cup {[key |-> k, user |-> u]}
  /\ UNCHANGED <<pairings, conn, page, made, swept>>

delete_ssh_key(s) ==
  /\ edits < MaxKeyEdits /\ edits' = edits + 1
  /\ keys' = keys \ {s}
  /\ UNCHANGED <<pairings, conn, page, made, swept>>

-----------------------------------------------------------------------------
Connection(c) ==
  \/ \E k \in Key : authenticate_key(c, k)
  \/ begin(c) \/ begin_fails(c) \/ wait_for_link(c) \/ wait_input(c) \/ DeadlinePasses(c)

Confirmation(p) ==
  \/ \E u \in Account, r \in pairings : link_page_response(p, u, r)
  \/ link_confirm_response(p) \/ link_pairing(p)

PairingNext ==
  \/ \E c \in Conn : Connection(c)
  \/ \E p \in Page : Confirmation(p)
  \/ \E r \in pairings : RowExpires(r)
  \/ \E u \in Account, k \in Key : add_ssh_key(u, k)
  \/ \E s \in keys : delete_ssh_key(s)

PairingSpec == PairingInit /\ [][PairingNext]_pairingVars

-----------------------------------------------------------------------------
\* The rows, keys, connections and confirmations have their types.
PairingTypeOK ==
  /\ pairings \subseteq PairingRow
  /\ \A r, s \in pairings : r # s => r.id # s.id
  /\ keys \subseteq [key : Key, user : Account]
  /\ \A c \in Conn : conn[c].stage \in {"new", "offer", "user", "wait", "linked", "expired",
                                         "cancelled", "failed"}
  /\ \A p \in Page : page[p].stage \in {"new", "shown", "linking", "dead", "linked", "refused"}

\* What a confirmation links is what its page showed.  A pairing is claimed
\* at most once, a fingerprint belongs to at most one account, and a page that
\* says "linked" linked the key whose fingerprint it displayed - unless the
\* pairing expired and was swept between the page's last check and the claim,
\* the one case in which the row id can already name another pairing
\* (pairings.rs link_pairing, create_pairing; pairing.rs resolve_link).
LinkAttachesConfirmed ==
  /\ \A r \in pairings : Cardinality(r.by) <= 1
  /\ \A k \in Key : Cardinality(ssh_key_by_fingerprint(k)) <= 1
  /\ \A p \in Page : page[p].stage = "linked" =>
       \A s \in page[p].saw : page[p].got = {s.key} \/ s.made \in swept
=============================================================================
