------------------------------ MODULE WebObjects ------------------------------
(***************************************************************************)
(* The objects a service works with in its callbacks: the collector and a  *)
(* body buffer of its request, the sessions, its event handlers, an SSL    *)
(* server of its own, and what is parsed from the request: its URI, its    *)
(* query string, its cookies and its numbers.  They share no state, so a   *)
(* behaviour is about one of them, its focus.                              *)
(***************************************************************************)
EXTENDS Router, QueryString, Gc, BodyBuffer, Session, Events, SslServer

CONSTANTS UriLen, QueryLen, CookieLen, NumberLen   \* bounds of the model: characters

VARIABLES focus, asked
vars == <<focus, asked, gcVars, bufVars, sesVars, eventVars, sslVars>>

Chars == [uri |-> {"/", "a", "b"}, query |-> {"a", "b", "=", "&"},
          cookie |-> {"a", "b", "=", ";"}, number |-> {"-", "+", "0", "1", "2", "7", "8", "x"}]
Lengths == [uri |-> UriLen, query |-> QueryLen, cookie |-> CookieLen, number |-> NumberLen]
Parsed == DOMAIN Chars

Init ==
    /\ focus \in Parsed \cup {"gc", "buffer", "session", "events", "ssl"}
    /\ asked = <<>>
    /\ GcInit /\ BufInit /\ SesInit /\ EventsInit /\ SslInit

\* A request with one more character.
Ask ==
    /\ focus \in Parsed
    /\ Len(asked) < Lengths[focus]
    /\ \E c \in Chars[focus] : asked' = Append(asked, c)
    /\ UNCHANGED <<focus, gcVars, bufVars, sesVars, eventVars, sslVars>>

Next ==
    \/ Ask
    \/ focus = "gc" /\ GcNext /\ UNCHANGED <<focus, asked, bufVars, sesVars, eventVars, sslVars>>
    \/ focus = "buffer" /\ BufNext /\ UNCHANGED <<focus, asked, gcVars, sesVars, eventVars, sslVars>>
    \/ focus = "session" /\ SesNext /\ UNCHANGED <<focus, asked, gcVars, bufVars, eventVars, sslVars>>
    \/ focus = "events" /\ EventsNext /\ UNCHANGED <<focus, asked, gcVars, bufVars, sesVars, sslVars>>
    \/ focus = "ssl" /\ SslNext /\ UNCHANGED <<focus, asked, gcVars, bufVars, sesVars, eventVars>>

Spec == Init /\ [][Next]_vars

\* For TLC: the descriptors of the SSL server are alike.
Alike == Permutations(Fds)

\* The rules of a service, in every order of two.
Patterns == {<<"/">>, <<"/", "a">>, <<"/", "a", "/">>, <<"/", "a", "/", "b">>, <<"/", "a", "/", ":", "b">>,
             <<"/", ":", "a">>, <<"/", ":", "a", "/", "b">>, <<"/", ":", "a", "/", ":", "a", "/", "b">>}
Rules == {duda_router_map(duda_router_map(<<>>, p), q) : p, q \in Patterns}
Services == {<<<<"a">>, <<"a", "b">>>>, <<<<"a", "b">>, <<"a">>>>, <<<<"b">>>>}


\* A cookie whose name begins the header, or follows a separator, and occurs
\* nowhere before, is found with its whole value.
CookieRight(s) ==
    LET key == <<"a">>
        at  == SelectInSeq(s, LAMBDA c : c = "a")
    IN at # 0 /\ (at = 1 \/ s[at - 1] = ";") /\ at < Len(s) /\ s[at + 1] = "=" =>
       LET value == duda_cookie_get(s, key) IN
       /\ At(s, <<"a", "=">> \o value, at) /\ \A i \in DOMAIN value : value[i] # ";"
       /\ Len(s) = at + 1 + Len(value) \/ s[at + 2 + Len(value)] = ";"
       /\ duda_cookie_cmp(s, key, value)

\* What a service reads from a request is what the client wrote: the entries
\* of the query string, cookies, and numbers up to the limits of a long.
RequestParsed ==
    /\ focus = "query" => QueryRight(asked)
    /\ focus = "cookie" => CookieRight(asked)
    /\ focus = "number" => NumberRight(asked)
=============================================================================
