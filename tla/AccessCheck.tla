---------------------------- MODULE AccessCheck -----------------------------
(***************************************************************************)
(* One access check, from wsubus_access_check_ to its callback or its      *)
(* cancellation: the chain of checkers, the deferral of a decision made    *)
(* here, and the request to the session object of rpcd.  Checks share only *)
(* the ACL, which does not change once owsd runs.                          *)
(***************************************************************************)
EXTENDS PatternTrees

CONSTANTS
    Object,     \* names of objects and events in requests
    NoName,     \* no name: an event without a path, a check that has not begun
    MaxChecked  \* bound: checks are explored under configurations of this size

ASSUME CheckAssumption == Object \subseteq Name /\ NoName \notin Object

VARIABLES
    input,    \* what is to be checked
    state,    \* new, deferred, asked, failed, granted, denied, cancelled, crashed
    tag,      \* tag of the request: UBUS (0, from calloc) or DEFER
    result,   \* result of the request
    timer,    \* uloop: defer_timer is set
    request,  \* libubus: the access call to rpcd is pending
    said      \* what rpcd has said: its last "access", and how the call ended

checkVars == <<input, state, tag, result, timer, request, said>>
accessVars == <<treeVars, checkVars>>

\* sid: a session of rpcd, or an extended one.  conn: without TLS, or how far the client's
\* certificate goes.  kind: a call or an event, "Obj" if the name has "ubus.object." in it.
\* path: the path in such an event.  login: a session.login with a user that the list of
\* the vhost has or has not; free: anything else.  rpcarg: parameters have a session.
Input ==
    {i \in [sid : {"rpcd", "X-mgmt", "X-tls"},
            conn : {"plain", "nocert", "unverified", "verified"},
            kind : {"call", "callObj", "event", "eventObj"},
            object : Object, path : Object \cup {NoName},
            login : {"free", "listed", "unlisted"}, rpcarg : BOOLEAN] :
        /\ i.path # NoName => i.kind = "eventObj"
        /\ i.login # "free" \/ i.rpcarg => i.kind = "call"}

Nothing == [access |-> FALSE, ok |-> FALSE]

CheckInit ==
    /\ TreesInit
    /\ input = NoName
    /\ state = "new" /\ tag = "UBUS" /\ result = FALSE
    /\ timer = FALSE /\ request = FALSE /\ said = Nothing

-----------------------------------------------------------------------------
(* The checkers: the decisions they may make *)

wsu_ext_check_interface == {"NEXT"}

\* Mutant: the outcome of the verification is not looked at.
TlsAnyCertificate(conn, name) ==
    CASE conn = "plain" -> {"NEXT"}
      [] conn = "nocert" -> {"DENY"}
      [] OTHER -> {IF allowed THEN "ALLOW" ELSE "DENY" : allowed \in ubusx_acl__allow_object(name)}

wsu_ext_check_tls(conn, name) ==
    CASE conn = "plain" -> {"NEXT"}
      [] conn \in {"nocert", "unverified"} -> {"DENY"}
      [] OTHER -> {IF allowed THEN "ALLOW" ELSE "DENY" : allowed \in ubusx_acl__allow_object(name)}

wsu_ext_restrict_interface(i) ==
    CASE i.login = "listed" -> {"ALLOW"}
      [] i.login = "unlisted" -> {"DENY"}
      [] OTHER -> {"NEXT"}

\* The names the ACL may be asked for.  Of a call the code reads the message of an event
\* that is not there, which may yield any name.
CheckedNames(i) ==
    CASE i.kind = "eventObj" /\ i.path # NoName -> {i.path}
      [] i.kind = "callObj" -> Object
      [] OTHER -> {i.object}

Extended(i) ==
    CASE i.sid = "X-mgmt" -> wsu_ext_check_interface
      [] i.sid = "X-tls" -> UNION {wsu_ext_check_tls(i.conn, n) : n \in CheckedNames(i)}
      [] OTHER -> {"NEXT"}

\* The first decision in the order of the chain; NEXT if there is none.
Decisions(i) ==
    UNION {IF d = "NEXT" THEN wsu_ext_restrict_interface(i) ELSE {d} : d \in Extended(i)}

-----------------------------------------------------------------------------
(* Operations *)

Configured == Cardinality(added) + Len(listed) <= MaxChecked

defer_callback(allow) ==
    /\ tag' = "DEFER"
    /\ result' = allow
    /\ timer' = TRUE
    /\ state' = "deferred"
    /\ UNCHANGED request

\* The request is sent, or cannot be (its parameters have a session, there is no session
\* object, ubus refuses), and then the caller is told so.
wsubus_access_check_via_session(i) ==
    /\ \/ ~i.rpcarg /\ request' = TRUE /\ state' = "asked"
       \/ request' = FALSE /\ state' = "failed"
    /\ UNCHANGED <<tag, result, timer>>

\* A TLS session calls an object with such a name: the message that is read is not one.
Misread(i) == i.sid = "X-tls" /\ i.kind = "callObj"

wsubus_access_check_(i) ==
    /\ state = "new"
    /\ Configured
    /\ input' = i
    /\ \/ \E d \in Decisions(i) :
            IF d = "NEXT" THEN wsubus_access_check_via_session(i) ELSE defer_callback(d = "ALLOW")
       \/ /\ Misread(i)
          /\ state' = "crashed"
          /\ UNCHANGED <<tag, result, timer, request>>
    /\ UNCHANGED <<treeVars, said>>

\* The callback of the caller, which frees the request.
Answer(allow) == state' = IF allow THEN "granted" ELSE "denied"

deferral_cb ==
    /\ timer
    /\ timer' = FALSE
    /\ Answer(result)
    /\ UNCHANGED <<treeVars, input, tag, result, request, said>>

\* A reply of rpcd; one without "access" counts as a refusal.
wsubus_access_check__on_ret(access) ==
    /\ request
    /\ result' = access
    /\ said' = [said EXCEPT !.access = access]
    /\ UNCHANGED <<treeVars, input, state, tag, timer, request>>

\* The call is over, with or without a reply.
wsubus_access_check__cb(ok) ==
    /\ request
    /\ request' = FALSE
    /\ said' = [said EXCEPT !.ok = ok]
    /\ Answer(result /\ ok)
    /\ UNCHANGED <<treeVars, input, tag, result, timer>>

\* Mutant: the timer of a deferred decision is left alone.
CancelKeepsTimer ==
    /\ state \in {"deferred", "asked"}
    /\ request' = (request /\ tag # "UBUS")
    /\ state' = "cancelled"
    /\ UNCHANGED <<treeVars, input, tag, result, timer, said>>

\* The client leaves while the check is in its queue.
wsubus_access_check__cancel ==
    /\ state \in {"deferred", "asked"}
    /\ timer' = (timer /\ tag # "DEFER")
    /\ request' = (request /\ tag # "UBUS")
    /\ state' = "cancelled"
    /\ UNCHANGED <<treeVars, input, tag, result, said>>

Configure == state = "new" /\ AddPattern /\ UNCHANGED checkVars

CheckNext ==
    \/ Configure
    \/ \E i \in Input : wsubus_access_check_(i)
    \/ deferral_cb
    \/ \E b \in BOOLEAN : wsubus_access_check__on_ret(b) \/ wsubus_access_check__cb(b)
    \/ wsubus_access_check__cancel

CheckSpec == CheckInit /\ [][CheckNext]_accessVars

-----------------------------------------------------------------------------
(* Properties *)

\* The name a TLS session is checked for: of an event about an object, the object.
Subject == IF input.path = NoName THEN input.object ELSE input.path

\* Access is granted only for one of three reasons: the client of a TLS session has a
\* verified certificate and the ACL has the object in question; the vhost lists the user
\* who logs in; or rpcd granted it in its last word and ended the call well.  For a TLS
\* session on a TLS connection the first is the only one.
GrantedForAReason ==
    state = "granted" /\ ~Misread(input) =>
        IF input.sid = "X-tls" /\ input.conn # "plain"
        THEN /\ input.conn = "verified"
             /\ uxacl = <<>> \/ \E p \in ToSet(uxacl) : Covers(p, Subject)
        ELSE input.login = "listed" \/ (input.login = "free" /\ said.access /\ said.ok)

\* What will call back is exactly what the check waits for: a cancelled or answered check
\* has neither a timer nor a pending request that would use the freed memory.
CallbackExact == timer = (state = "deferred") /\ request = (state = "asked")
=============================================================================
