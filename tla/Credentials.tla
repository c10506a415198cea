---------------------------- MODULE Credentials ----------------------------
(***************************************************************************)
(* Who a caller is, at each of the doors of the control plane: the JSON    *)
(* API and the dashboard (a session cookie, else a bearer token), and the  *)
(* SSH command line (a registered key).  And what the registered keys are  *)
(* used for: a user edits their own through any door, and a new instance's *)
(* cloud-init seed carries the ones its owner has.                         *)
(*                                                                         *)
(* A key is its fingerprint; the text it is stored with ends cleanly or    *)
(* with a line break.  ssh_keys.id and tokens.id are INTEGER PRIMARY KEYs  *)
(* without AUTOINCREMENT: the id of the newest row returns when it is      *)
(* deleted.                                                                *)
(***************************************************************************)
EXTENDS Naturals, FiniteSets, FiniteSetsExt

CONSTANTS CrdUser,    \* users
          Fp,         \* fingerprints
          Client,     \* browsers, scripts and SSH connections
          MaxIds,     \* bound: row ids
          MaxNow,     \* bound: the clock
          MaxCrdEdits \* bound: sessions, tokens and keys created or removed

VARIABLE crd

crdvars == <<crd>>

Door == {"api", "page", "cli"}
Text == {"clean", "newline", "garbage"}
KeyRow == [id : 1..MaxIds, user : CrdUser, fp : Fp, line : {"clean", "newline"}]
Expiry == 1..(MaxNow + 1)
Session == [id : 1..MaxIds, user : CrdUser, expires_at : Expiry]
Token == [id : 1..MaxIds, user : CrdUser, expires_at : SUBSET Expiry]

\* listed: the keys a browser or a terminal shows.  lines and fps: what the
\* seed of the instance being created is built from.
ClientState == [stage : {"idle", "in", "build"}, door : Door, user : SUBSET CrdUser, listed : SUBSET KeyRow,
                lines : SUBSET {"clean", "newline"}, fps : SUBSET Fp,
                result : {"none", "refused"}]

\* A fresh deployment, or one whose users are signed in already.
SignedIn == {{[id |-> id[u], user |-> u, expires_at |-> 1] : u \in CrdUser} :
               id \in {f \in [CrdUser -> 1..MaxIds] : \A u, v \in CrdUser : f[u] = f[v] => u = v}}

Init ==
  \E sessions \in {{}} \cup SignedIn :
    crd = [now |-> 0, keys |-> {}, tokens |-> {}, sessions |-> sessions, edits |-> 0,
           client |-> [c \in Client |-> [stage |-> "idle", door |-> "api", user |-> {}, listed |-> {},
                                         lines |-> {}, fps |-> {}, result |-> "none"]],
           lost |-> {},     \* history: each key removed, and by whom
           raw |-> {}]      \* history: who stored a key's text as it was sent

NextId(rows) == IF rows = {} THEN 1 ELSE 1 + Max({r.id : r \in rows})
CanEdit == crd.edits < MaxCrdEdits

-----------------------------------------------------------------------------
(* Sessions and tokens.                                                    *)

new_session(u) ==
  /\ CanEdit /\ NextId(crd.sessions) <= MaxIds
  /\ crd' = [crd EXCEPT !.edits = @ + 1,
               !.sessions = @ \cup {[id |-> NextId(crd.sessions), user |-> u, expires_at |-> crd.now + 1]}]

\* A token lives for its time to live, or for ever when that is not positive.
create_token(u, ttl) ==
  /\ CanEdit /\ NextId(crd.tokens) <= MaxIds
  /\ crd' = [crd EXCEPT !.edits = @ + 1,
               !.tokens = @ \cup {[id |-> NextId(crd.tokens), user |-> u,
                                   expires_at |-> IF ttl > 0 THEN {crd.now + ttl} ELSE {}]}]

\* By row id alone; a row that is gone is no error.
delete_token(i) ==
  /\ CanEdit
  /\ LET kept == {t \in crd.tokens : t.id # i} IN
     crd' = [crd EXCEPT !.tokens = kept, !.edits = IF kept = crd.tokens THEN @ ELSE @ + 1]

Tick == crd.now < MaxNow /\ crd' = [crd EXCEPT !.now = @ + 1]

-----------------------------------------------------------------------------
(* Whose request it is.  Headers hold at most one cookie and one token.    *)

Headers == [cookie : {{}} \cup {{s} : s \in crd.sessions}, bearer : {{}} \cup {{t} : t \in crd.tokens}]

session(h) == {s \in h.cookie : s.expires_at > crd.now}

authenticate_token(h) == {t \in h.bearer : t \in crd.tokens /\ \A at \in t.expires_at : at > crd.now}

\* The session decides when it is alive; only without one is the token read.
user_from_headers(h) ==
  IF session(h) # {} THEN {s.user : s \in session(h)} ELSE {t.user : t \in authenticate_token(h)}

authorize_user_id(us, allowed) == IF us \subseteq allowed THEN "NO_CONTENT" ELSE "FORBIDDEN"

\* What the proxy is told of a request for an instance its users may use.
access_status(h, allowed) ==
  CASE session(h) # {} -> authorize_user_id({s.user : s \in session(h)}, allowed)
    [] session(h) = {} /\ authenticate_token(h) # {} ->
         authorize_user_id({t.user : t \in authenticate_token(h)}, allowed)
    [] OTHER -> "UNAUTHORIZED"

\* The API and the dashboard put the user into the request, or answer 401.
authenticate(c, door, h) ==
  /\ crd.client[c].stage = "idle" /\ user_from_headers(h) # {}
  /\ crd' = [crd EXCEPT !.client[c].stage = "in", !.client[c].door = door,
                        !.client[c].user = user_from_headers(h), !.client[c].result = "none"]

\* A registered key opens a connection, which keeps its user to the end.
auth_publickey(c, fp) ==
  LET rows == {k \in crd.keys : k.fp = fp} IN
  /\ crd.client[c].stage = "idle" /\ rows # {}
  /\ crd' = [crd EXCEPT !.client[c].stage = "in", !.client[c].door = "cli",
                        !.client[c].user = {k.user : k \in rows}, !.client[c].result = "none"]

disconnect(c) ==
  /\ crd.client[c].stage = "in" /\ crd.client[c].door = "cli"
  /\ crd' = [crd EXCEPT !.client[c].stage = "idle"]

-----------------------------------------------------------------------------
(* Keys.  A handler ends a request; an SSH connection takes another        *)
(* command.                                                                *)

In(c) == crd.client[c].stage = "in"
DoneWith(c) == IF crd.client[c].door = "cli" THEN "in" ELSE "idle"

ssh_keys_for_user(us) == {k \in crd.keys : k.user \in us}

list_ssh_keys(c) ==
  /\ In(c)
  /\ crd' = [crd EXCEPT !.client[c].listed = ssh_keys_for_user(crd.client[c].user),
                        !.client[c].stage = DoneWith(c)]

\* The key library reads a text with or without the line break at its end.
from_openssh(text) == text # "garbage"

\* The command line takes the first line that is a key.
parse_authorized_key(text) == IF from_openssh(text) THEN {"clean"} ELSE {}

\* The text each door stores: the API's as it was sent, the page's trimmed,
\* the command line's written anew from the parsed key.
api_add_key(text) == IF from_openssh(text) THEN {text} ELSE {}
page_add_key(text) == IF from_openssh(text) THEN {"clean"} ELSE {}
ssh_key_add(text) == parse_authorized_key(text)
StoredText(door, text) ==
  CASE door = "api" -> api_add_key(text) [] door = "page" -> page_add_key(text) [] door = "cli" -> ssh_key_add(text)

\* A text that is no key, or a fingerprint somebody has, is refused.
add_ssh_key(c, fp, text) ==
  LET new == IF \E k \in crd.keys : k.fp = fp THEN {}
             ELSE {[id |-> NextId(crd.keys), user |-> u, fp |-> fp, line |-> line] :
                     u \in crd.client[c].user, line \in StoredText(crd.client[c].door, text)} IN
  /\ In(c) /\ CanEdit /\ NextId(crd.keys) <= MaxIds
  /\ crd' = [crd EXCEPT !.keys = @ \cup new, !.edits = IF new = {} THEN @ ELSE @ + 1,
                        !.raw = @ \cup {k.user : k \in {k \in new : k.line = "newline"}},
                        !.client[c].stage = DoneWith(c)]

\* Mutant of DeletedKeys: the row with the id, whoever it belongs to.
DeletedById(us, i) == {k \in crd.keys : k.id = i}

\* The row with the id, when it is the caller's.
DeletedKeys(us, i) == {k \in crd.keys : k.id = i /\ k.user \in us}

\* A key shown earlier is removed by its id, by whoever is signed in now.
delete_ssh_key(c, i) ==
  LET gone == DeletedKeys(crd.client[c].user, i) IN
  /\ In(c) /\ CanEdit /\ \E k \in crd.client[c].listed : k.id = i
  /\ crd' = [crd EXCEPT !.keys = @ \ gone, !.edits = IF gone = {} THEN @ ELSE @ + 1,
                        !.lost = @ \cup {[key |-> k, by |-> crd.client[c].user] : k \in gone},
                        !.client[c].stage = DoneWith(c)]

-----------------------------------------------------------------------------
(* The seed of a new instance.                                             *)

\* The owner's keys as they are now, and the SSH frontend's own.
new_request(c) ==
  LET keys == ssh_keys_for_user(crd.client[c].user) IN
  /\ In(c)
  /\ crd' = [crd EXCEPT !.client[c].stage = "build", !.client[c].fps = {k.fp : k \in keys},
                        !.client[c].lines = {k.line : k \in keys} \cup {"clean"}]

\* No line of a seed may hold a control character.
validate(lines) == lines # {} /\ "newline" \notin lines

\* A seed that is not refused is written to its ISO, well or not.
build(c) ==
  /\ crd.client[c].stage = "build"
  /\ crd' = [crd EXCEPT !.client[c].stage = DoneWith(c), !.client[c].lines = {}, !.client[c].fps = {},
                        !.client[c].result = IF validate(crd.client[c].lines) THEN "none" ELSE "refused"]

Next ==
  \/ \E u \in CrdUser : new_session(u) \/ \E ttl \in 0..1 : create_token(u, ttl)
  \/ \E i \in 1..MaxIds : delete_token(i)
  \/ Tick
  \/ \E c \in Client :
       \/ \E h \in Headers, door \in {"api", "page"} : authenticate(c, door, h)
       \/ \E fp \in Fp : auth_publickey(c, fp) \/ \E text \in Text : add_ssh_key(c, fp, text)
       \/ \E i \in 1..MaxIds : delete_ssh_key(c, i)
       \/ disconnect(c) \/ list_ssh_keys(c) \/ new_request(c) \/ build(c)

-----------------------------------------------------------------------------
CredentialsTypeOK ==
  /\ crd.now \in 0..MaxNow /\ crd.keys \subseteq KeyRow /\ crd.tokens \subseteq Token
  /\ crd.sessions \subseteq Session /\ crd.client \in [Client -> ClientState]

\* The doors agree on who the caller is and what is theirs.  For any headers
\* the proxy's check (adapters.rs access_status) speaks of exactly the user
\* the API would act for (Authenticator.user_from_headers); a fingerprint has
\* one user; a key is only ever removed for its own user, even when its row
\* id went to another key since it was listed (sshkeys.rs delete_ssh_key);
\* and a creation is refused for its keys only to a user who stored one
\* through the API as it was sent (misc.rs add_ssh_key, seed.rs validate).
DoorsAgree ==
  /\ \A h \in Headers, allowed \in SUBSET CrdUser :
       access_status(h, allowed) =
         IF user_from_headers(h) = {} THEN "UNAUTHORIZED"
         ELSE IF user_from_headers(h) \subseteq allowed THEN "NO_CONTENT" ELSE "FORBIDDEN"
  /\ \A k, l \in crd.keys : k.fp = l.fp => k = l
  /\ \A l \in crd.lost : l.by = {l.key.user}
  /\ \A c \in Client : crd.client[c].result = "refused" => crd.client[c].user \subseteq crd.raw
=============================================================================
