------------------------------- MODULE Router -------------------------------
(***************************************************************************)
(* From a URI to a callback: the services of a host                        *)
(* (duda_get_service_from_uri), the rules of a service                     *)
(* (lib/objects/duda_router.c) and the parameters of a rule                *)
(* (lib/objects/duda_param.c).  A string is a sequence of characters.      *)
(***************************************************************************)
EXTENDS SequencesExt, Integers

CONSTANTS UriMax    \* DUDA_ROUTER_URI_MAX, the fields a request has room for

Slash == "/"
Colon == ":"
Text(s, i, j) == SubSeq(s, i, j)

\* strncmp(s + at, p, Len(p)) = 0
StartsWith(s, p) == IsPrefix(p, s)

\* router_split_pattern: from position i on.
RECURSIVE SplitFrom(_, _)
SplitFrom(p, i) ==
    IF i > Len(p) THEN <<>>
    ELSE LET ends == {k \in i..Len(p) : p[k] = Slash}
             end  == IF ends = {} THEN Len(p) + 1 ELSE Min(ends)
         IN IF end = i THEN SplitFrom(p, i + 1)
            ELSE <<Text(p, i, end - 1)>> \o SplitFrom(p, end + 1)
router_split_pattern(p) == SplitFrom(p, 1)

\* router_new_path, as router_add_static and router_add_dynamic fill it.
Field(name) == [name |-> name, var |-> name[1] = Colon]
router_add_static(p) ==
    [type |-> "static", pattern |-> p, redirect |-> Last(p) = Slash, fields |-> <<>>]
router_add_dynamic(p) ==
    [type |-> "dynamic", pattern |-> p, redirect |-> Last(p) = Slash,
     fields |-> [k \in DOMAIN router_split_pattern(p) |-> Field(router_split_pattern(p)[k])]]

\* duda_router_map: the rules after adding a pattern.
duda_router_map(rules, p) ==
    IF ~ \E k \in DOMAIN p : p[k] = Colon THEN Append(rules, router_add_static(p))
    ELSE IF p[1] # Slash THEN rules ELSE Append(rules, router_add_dynamic(p))

\* uri_add
uri_add(fields, f) == IF Len(fields) >= UriMax THEN fields ELSE Append(fields, f)

\* The loop of duda_router_uri_parse: start is the slash before the field
\* being read, 0 before the first one.
RECURSIVE UriScan(_, _, _, _)
UriScan(uri, i, start, fields) ==
    LET field == Text(uri, start + 1, i - 1)
        more  == IF start > 0 /\ field # <<>> THEN uri_add(fields, field) ELSE fields
    IN IF i > Len(uri) THEN more
       ELSE IF uri[i] # Slash THEN UriScan(uri, i + 1, start, fields)
       ELSE UriScan(uri, i + 1, i, more)
duda_router_uri_parse(uri) == UriScan(uri, 1, 0, <<>>)


\* Where the lookup turns to its dr: for the fields of a dynamic rule, and to
\* redirect a uri that differs from the pattern in its last slash.
Consults(p, uri) ==
    \/ p.type = "dynamic" /\ p.fields # <<>>
    \/ /\ p.type = "static" /\ p.redirect
       /\ StartsWith(uri, Front(p.pattern)) /\ Len(uri) <= Len(p.pattern)

\* duda_router_path_lookup.  The dr is a local variable that is set to NULL
\* and stays so: to read it ends the process, before a field is compared
\* or a redirection sent.
duda_router_path_lookup(rules, uri) ==
    LET Takes(p) == p.type = "static" /\ StartsWith(uri, p.pattern)
        k        == SelectInSeq(rules, LAMBDA p : Takes(p) \/ Consults(p, uri))
    IN  IF k = 0 THEN <<"notfound", 0>>
        ELSE IF Takes(rules[k]) THEN <<"match", k>> ELSE <<"null", k>>

\* duda_router_redirect: the location is the uri and a slash.
duda_router_redirect(uri) == Append(uri, Slash)

\* duda_router_is_request_root
duda_router_is_request_root(name, isroot, uri) ==
    \/ isroot /\ Len(uri) = 1
    \/ /\ ~isroot /\ StartsWith(Tail(uri), name)
       /\ \/ Len(uri) - 1 = Len(name)
          \/ uri[Len(name) + 2] = Slash /\ Len(uri) <= Len(name) + 2

\* duda_get_service_from_uri: the first service whose name the uri, after
\* its slash, starts with; 0 for none.
duda_get_service_from_uri(names, uri) == SelectInSeq(names, LAMBDA n : StartsWith(Tail(uri), n))

\* get_param_position and duda_param_get; <<>> is NULL.
get_param_position(path, key) ==
    SelectInSeq(path.fields, LAMBDA f : f.var /\ Len(f.name) - 1 = Len(key) /\ Tail(f.name) = key)
duda_param_get(path, uri, key) ==
    LET k == get_param_position(path, key) IN IF k = 0 THEN <<>> ELSE duda_router_uri_parse(uri)[k]

\* duda_service_run, once the request is set up: the root page, a callback,
\* or a file of the service.
duda_service_run(name, isroot, rules, uri) ==
    LET r == duda_router_path_lookup(rules, uri) IN
    IF duda_router_is_request_root(name, isroot, uri)
    THEN <<IF Last(uri) = Slash THEN "root" ELSE "redirect", 0>>
    ELSE IF r[1] = "notfound" THEN <<"file", 0>> ELSE r

(***************************************************************************)
(* What the rules mean.                                                    *)
(***************************************************************************)

\* The pieces between slashes, each from the place where it starts.
Ends(uri, i) == {j \in i..Len(uri) : (j = Len(uri) \/ uri[j + 1] = Slash) /\ \A k \in i..j : uri[k] # Slash}
Segments(uri) ==
    LET starts == SelectSeq([i \in DOMAIN uri |-> i],
                            LAMBDA i : i > 1 /\ uri[i - 1] = Slash /\ uri[i] # Slash)
    IN [k \in DOMAIN starts |-> Text(uri, starts[k], Min(Ends(uri, starts[k])))]

\* The requests for the root page of a service: its name, with or without
\* a slash.
Roots(name) == {<<Slash>> \o name, <<Slash>> \o name \o <<Slash>>}

\* The requests that a rule, by its own comment, is there to redirect: the
\* pattern without its last slash.  And those it takes for that: one other
\* character is in the place of the slash.
Lacks(rule, uri) ==
    /\ Last(rule.pattern) = Slash /\ uri = Front(rule.pattern)
Near(rule, uri) ==
    /\ Last(rule.pattern) = Slash /\ Len(uri) = Len(rule.pattern)
    /\ Front(uri) = Front(rule.pattern) /\ Last(uri) # Slash

\* What the rules of a service make of a request that is not for its root
\* page.  A callback runs only for a pattern that begins the uri, and then
\* it is that of the first such rule, which sees no parameter; and a file is
\* looked for only where no rule has a claim.  The NULL is read, exactly, at
\* a rule with variables, or with a slash that the uri lacks or has another
\* character for, that comes before every rule which begins the uri.
RouteRight(name, rules, uri) ==
    LET r == duda_service_run(name, FALSE, rules, uri)
        k == r[2]
        Begins(x)  == ~ (\E c \in DOMAIN rules[x].pattern : rules[x].pattern[c] = Colon)
                      /\ IsPrefix(rules[x].pattern, uri)
        Crashes(x) == \/ \E c \in DOMAIN rules[x].pattern : rules[x].pattern[c] = Colon
                      \/ Lacks(rules[x], uri) \/ Near(rules[x], uri)
        First(x, P(_)) == P(x) /\ \A y \in 1..(x - 1) : ~Begins(y) /\ ~Crashes(y)
    IN uri \notin Roots(name) =>
       /\ r[1] = "match" <=> \E x \in DOMAIN rules : First(x, Begins)
       /\ r[1] = "match" => /\ First(k, Begins)
                            /\ \A key \in {<<"a">>, <<"b">>} : duda_param_get(rules[k], uri, key) = <<>>
       /\ r[1] = "null" <=> \E x \in DOMAIN rules : ~Begins(x) /\ First(x, Crashes)
       /\ r[1] = "file" <=> \A x \in DOMAIN rules : ~Begins(x) /\ ~Crashes(x)

\* A request has the segments of its uri, up to those it has room for.  It is
\* run by the service it names, unless the name of an earlier service is the
\* beginning of that name.  The root page of a service is asked for with or
\* without its slash; without it the client is sent to a location which
\* then is the root page.
ServiceRight(names, uri) ==
    LET k == duda_get_service_from_uri(names, uri)
        own == {i \in DOMAIN names : Segments(uri) # <<>> /\ Segments(uri)[1] = names[i] /\ uri[2] # Slash}
        Run(i, u) == duda_service_run(names[i], FALSE, <<>>, u)[1]
    IN /\ duda_router_uri_parse(uri) = SubSeq(Segments(uri), 1, Min({UriMax, Len(Segments(uri))}))
       /\ \A i \in own : k # 0 /\ k <= i /\ IsPrefix(names[k], names[i])
       /\ \A i \in DOMAIN names :
             /\ Run(i, uri) \in {"root", "redirect"} <=> uri \in Roots(names[i])
             /\ Run(i, uri) = "redirect" => Run(i, duda_router_redirect(uri)) = "root"
=============================================================================
