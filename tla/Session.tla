-------------------------------- MODULE Session --------------------------------
(***************************************************************************)
(* Sessions (lib/objects/duda_session.c) on cookies                        *)
(* (lib/objects/duda_cookie.c).  Requests of several clients, each in its  *)
(* worker thread, share the store: a directory of files named after the    *)
(* session, the identifier in the client's cookie and the expiration.      *)
(* Clients and the file system are external.                               *)
(***************************************************************************)
EXTENDS Integers, Sequences, SequencesExt

CONSTANTS
    Clients,   \* each has at most one request at a time
    Names,     \* the names of sessions
    Uuids,     \* what two calls of rand() seeded with the time may print
    MaxCreates \* bound of the model: sessions created

Deleted == "deleted"  \* COOKIE_DELETED
None == "none"

\* An identifier has a hyphen between its two numbers.
ASSUME SessionAssumption == MaxCreates \in Nat /\ Uuids \cap {None, Deleted} = {}

VARIABLES
    store,     \* the files, by name, identifier and expiration: the values whose
               \* bytes they hold, the newest first
    cookie,    \* what each client sends as DUDA_SESSION
    rows,      \* the Set-Cookie rows of each client's response, oldest first
    writing,   \* the file that duda_session_create has open in each request
    got,       \* what the last get of a request found: a file and its content
    owner,     \* history: who created each value, under which name
    reissued,  \* history: an identifier was given out that was in use
    failed     \* history: the files whose write failed

sesVars == <<store, cookie, rows, writing, got, owner, reissued, failed>>

NoFile == <<None, None, 0>>
Nothing == [file |-> NoFile, value |-> 0]

SesInit ==
    /\ store = <<>> /\ cookie = [c \in Clients |-> None]
    /\ rows = [c \in Clients |-> <<>>] /\ writing = [c \in Clients |-> Nothing]
    /\ got = [c \in Clients |-> [file |-> NoFile, content |-> <<>>]]
    /\ owner = <<>> /\ reissued = FALSE /\ failed = {}

\* duda_cookie_set adds a row to the response and never ends it with a line
\* break, so that the client takes only the first row of a response.
duda_cookie_set(c, value) == rows' = [rows EXCEPT ![c] = Append(@, value)]

\* The identifiers in use: in a cookie, on the way to one, or of a file.
InUse == {cookie[c] : c \in Clients} \cup (UNION {ToSet(rows[c]) : c \in Clients}) \cup {f[2] : f \in DOMAIN store}

\* duda_session_create up to the open, which neither looks for a duplicate
\* nor truncates the file of one.
SessionCreate(c, name, uuid, expires) ==
    LET file == <<name, uuid, expires>> IN
    /\ writing[c] = Nothing /\ Len(owner) < MaxCreates
    /\ owner' = Append(owner, <<c, name>>)
    /\ duda_cookie_set(c, uuid)
    /\ store' = [f \in DOMAIN store \cup {file} |-> IF f \in DOMAIN store THEN store[f] ELSE <<>>]
    /\ writing' = [writing EXCEPT ![c] = [file |-> file, value |-> Len(owner) + 1]]
    /\ reissued' = (reissued \/ uuid \in InUse)
    /\ UNCHANGED <<cookie, got, failed>>

\* Mutant: the write goes to a file of the same name.
SessionWriteAny(c) ==
    /\ writing[c] # Nothing
    /\ \E f \in DOMAIN store :
          f[1] = writing[c].file[1] /\ store' = [store EXCEPT ![f] = <<writing[c].value>>]
    /\ writing' = [writing EXCEPT ![c] = Nothing]
    /\ UNCHANGED <<cookie, rows, got, owner, reissued, failed>>

\* ... and its write: over what the file held, on a file unlinked since then
\* without effect.  The open or the write may fail, with the cookie set.
SessionWrite(c) ==
    LET file == writing[c].file IN
    /\ writing[c] # Nothing
    /\ \/ /\ file \in DOMAIN store
          /\ \E rest \in {<<>>, store[file]} : store' = [store EXCEPT ![file] = <<writing[c].value>> \o rest]
          /\ UNCHANGED failed
       \/ file \notin DOMAIN store /\ UNCHANGED <<store, failed>>
       \/ failed' = failed \cup {file} /\ UNCHANGED store
    /\ writing' = [writing EXCEPT ![c] = Nothing]
    /\ UNCHANGED <<cookie, rows, got, owner, reissued>>

\* _duda_session_get_path: the files whose names begin with the name of the
\* session and the identifier the client sent; the first that readdir finds
\* is taken.
_duda_session_get_path(c, name) == {f \in DOMAIN store : f[1] = name /\ f[2] = cookie[c]}
duda_session_isset(c, name) == _duda_session_get_path(c, name) # {}

\* duda_session_destroy: the cookie is overwritten whether a file is found
\* or not.
SessionDestroy(c, name) ==
    LET found == _duda_session_get_path(c, name) IN
    /\ writing[c] = Nothing /\ Len(rows[c]) < 2
    /\ \/ \E gone \in found : store' = [f \in DOMAIN store \ {gone} |-> store[f]]
       \/ found = {} /\ UNCHANGED store
    /\ duda_cookie_set(c, Deleted)
    /\ UNCHANGED <<cookie, writing, got, owner, reissued, failed>>

\* duda_session_get.
SessionGet(c, name) ==
    /\ writing[c] = Nothing
    /\ \E f \in _duda_session_get_path(c, name) : got' = [got EXCEPT ![c] = [file |-> f, content |-> store[f]]]
    /\ UNCHANGED <<store, cookie, rows, writing, owner, reissued, failed>>

\* The response reaches the client, which keeps its first cookie.
Respond(c) ==
    /\ writing[c] = Nothing /\ rows[c] # <<>>
    /\ cookie' = [cookie EXCEPT ![c] = Head(rows[c])]
    /\ rows' = [rows EXCEPT ![c] = <<>>]
    /\ UNCHANGED <<store, writing, got, owner, reissued, failed>>

SesNext ==
    \E c \in Clients :
        \/ \E name \in Names :
              \/ \E uuid \in Uuids, expires \in {0, 1} : SessionCreate(c, name, uuid, expires)
              \/ SessionDestroy(c, name) \/ SessionGet(c, name)
        \/ SessionWrite(c) \/ Respond(c)

SesSpec == SesInit /\ [][SesNext]_sesVars

\* What get returns is one whole value, stored by this client under this
\* name, or nothing at all when its write failed; and a session that isset
\* finds was created for this client.  This holds as long as no identifier
\* is given out a second time, which nothing in create prevents.
SessionsPrivate ==
    ~reissued => \A c \in Clients :
        /\ got[c].file # NoFile =>
              \/ got[c].content = <<>> /\ got[c].file \in failed
              \/ Len(got[c].content) = 1 /\ owner[got[c].content[1]] = <<c, got[c].file[1]>>
        /\ \A name \in Names : duda_session_isset(c, name) => <<c, name>> \in ToSet(owner)

(***************************************************************************)
(* Finding a cookie in the header: a sequence of characters.               *)
(***************************************************************************)
At(s, p, i) == i + Len(p) - 1 <= Len(s) /\ SubSeq(s, i, i + Len(p) - 1) = p

\* The first index from i on at which c is; one past the end when nowhere.
Find(s, c, i) == IF \E k \in i..Len(s) : s[k] = c THEN CHOOSE k \in i..Len(s) : s[k] = c /\ \A j \in i..(k - 1) : s[j] # c
                  ELSE Len(s) + 1

\* duda_cookie_get: the key anywhere, the next equal sign, up to a semicolon.
duda_cookie_get(s, key) ==
    LET at == {i \in DOMAIN s : At(s, key, i)}
        pos_key == CHOOSE i \in at : \A j \in at : i <= j
        pos_val == Find(s, "=", pos_key)
    IN IF at = {} \/ pos_val > Len(s) THEN <<"NULL">> ELSE SubSeq(s, pos_val + 1, Find(s, ";", pos_val + 1) - 1)
duda_cookie_cmp(s, key, value) == duda_cookie_get(s, key) = value
=============================================================================
