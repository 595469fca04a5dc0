----------------------------- MODULE LoHandlers -----------------------------
(***************************************************************************)
(* The closures of a C++ Server or ServerThread (lo_cpp.h).  liblo is given *)
(* a bare pointer with every method and one with the error handler; the    *)
(* object keeps the closures they point to, those of methods filed under    *)
(* "path,types" in _handlers, and must keep each for as long as liblo may   *)
(* call it.                                                                 *)
(*                                                                         *)
(* del_method and the destructors take two steps, between which the thread *)
(* of a ServerThread may dispatch.  How it walks the list that changes      *)
(* under it is LoServerThread's subject; here a list is the set of what is  *)
(* on it, and any method there is may be called.                           *)
(***************************************************************************)
EXTENDS Integers

CONSTANTS
    Paths, Types,   \* what methods are added and deleted with, NULL and "" too
    Pattern,        \* the paths among them that are patterns
    MaxHandlers,    \* bound: closures made
    Null

ASSUME NullAssumption == Null \notin [path : Paths, types : Types]

VARIABLES
    server,     \* the C++ object: its kind and how far it has come
    methods,    \* the methods on lo_server's list
    handlers,   \* _handlers: path and types -> the closures filed there
    error,      \* _error_handler and the context liblo has for it
    made, gone, \* closures made, and destroyed
    deleting,   \* the del_method in progress
    called      \* the closure liblo called in the last step

cppVars == <<server, methods, handlers, error, made, gone, deleting, called>>

Kind == {"port", "proto", "multicast", "thread"}
Blank == ""

\* The key writes NULL and "" alike.
Key(path, types) ==
    <<IF path = Null THEN Blank ELSE path, IF types = Null THEN Blank ELSE types>>
Keys == {Key(p, t) : p \in Paths, t \in Types}

NoCall == [closure |-> 0, by |-> "nobody"]
Live == server.at = "live" /\ deleting = Null

-----------------------------------------------------------------------------
(* Construction: the C library makes the server first, with a callback that *)
(* asks for the error context, and the context is set afterwards.           *)

Server(kind) ==
    /\ server.at = "none"
    /\ server' = [kind |-> kind, at |-> "creating"]
    /\ UNCHANGED <<methods, handlers, error, made, gone, deleting, called>>

\* lo_server_new throws and returns NULL.  The callback finds no context; two
\* of the constructors look.
CreateFails ==
    /\ server.at = "creating"
    /\ server' = [server EXCEPT !.at = "null"]
    /\ called' = IF server.kind \in {"port", "thread"} THEN NoCall
                 ELSE [closure |-> 0, by |-> server.kind]
    /\ UNCHANGED <<methods, handlers, error, made, gone, deleting>>

Created ==
    /\ server.at = "creating"
    /\ server' = [server EXCEPT !.at = "live"]
    /\ made' = made + 1
    /\ error' = [kept |-> made + 1, context |-> made + 1]
    /\ called' = NoCall
    /\ UNCHANGED <<methods, handlers, gone, deleting>>

\* lo_throw: any call of the server may.
Throw ==
    /\ server.at = "live"
    /\ called' = [closure |-> error.context, by |-> "error"]
    /\ UNCHANGED <<server, methods, handlers, error, made, gone, deleting>>

-----------------------------------------------------------------------------
(* Methods *)

\* The closure is filed whether or not lo_server_add_method takes the path.
add_method(path, types) ==
    /\ Live /\ made < MaxHandlers
    /\ made' = made + 1
    /\ handlers' = [handlers EXCEPT ![Key(path, types)] = @ \cup {made + 1}]
    /\ methods' = IF path \in Pattern THEN methods
                  ELSE methods \cup {[path |-> path, types |-> types, data |-> made + 1]}
    /\ called' = NoCall
    /\ UNCHANGED <<server, error, gone, deleting>>

\* del_method: first the closures under the key ...
Erase(path, types) ==
    /\ Live
    /\ gone' = gone \cup handlers[Key(path, types)]
    /\ handlers' = [handlers EXCEPT ![Key(path, types)] = {}]
    /\ deleting' = [path |-> path, types |-> types]
    /\ called' = NoCall
    /\ UNCHANGED <<server, methods, error, made>>

\* ... then lo_server_del_method: NULL means NULL there, and a pattern all the
\* paths that match.
Deletes(m) ==
    /\ \/ m.path = deleting.path
       \/ deleting.path \in Pattern /\ m.path # Null
    /\ m.types = deleting.types

\* Seeded bug: only the first of several is deleted.
DeleteFirst ==
    /\ deleting # Null
    /\ methods' = {m \in methods :
                     Deletes(m) => \E n \in methods : Deletes(n) /\ n.data < m.data}
    /\ deleting' = Null
    /\ called' = NoCall
    /\ UNCHANGED <<server, handlers, error, made, gone>>

lo_server_del_method ==
    /\ deleting # Null
    /\ methods' = {m \in methods : ~Deletes(m)}
    /\ deleting' = Null
    /\ called' = NoCall
    /\ UNCHANGED <<server, handlers, error, made, gone>>

\* A message is dispatched: by the application, which is not in del_method then,
\* or by the server's thread.
Dispatch(m) ==
    /\ server.at = "live" /\ (deleting # Null => server.kind = "thread")
    /\ called' = [closure |-> m.data, by |-> IF deleting = Null THEN "dispatch" ELSE "race"]
    /\ UNCHANGED <<server, methods, handlers, error, made, gone, deleting>>

-----------------------------------------------------------------------------
(* Destruction: the body of ~Server or ~ServerThread frees the C server and *)
(* has its thread joined; the members go afterwards.                        *)

Free ==
    /\ Live
    /\ server' = [server EXCEPT !.at = "freed"]
    /\ methods' = {}
    /\ called' = NoCall
    /\ UNCHANGED <<handlers, error, made, gone, deleting>>

Destroy ==
    /\ server.at = "freed"
    /\ server' = [server EXCEPT !.at = "null"]
    /\ gone' = gone \cup {error.kept} \cup UNION {handlers[k] : k \in Keys}
    /\ handlers' = [k \in Keys |-> {}]
    /\ called' = NoCall
    /\ UNCHANGED <<methods, error, made, deleting>>

-----------------------------------------------------------------------------
CppInit ==
    /\ server = [kind |-> "port", at |-> "none"]
    /\ methods = {} /\ handlers = [k \in Keys |-> {}]
    /\ error = [kept |-> 0, context |-> 0]
    /\ made = 0 /\ gone = {} /\ deleting = Null /\ called = NoCall

CppNext ==
    \/ \E kind \in Kind : Server(kind)
    \/ CreateFails \/ Created \/ Throw
    \/ \E p \in Paths, t \in Types : add_method(p, t) \/ Erase(p, t)
    \/ lo_server_del_method
    \/ \E m \in methods : Dispatch(m)
    \/ Free \/ Destroy

CppSpec == CppInit /\ [][CppNext]_cppVars

-----------------------------------------------------------------------------
(* Properties *)

Ambiguous(m) == m.path \in {Null, Blank} \/ m.types \in {Null, Blank}

\* Every closure liblo calls is one the object still keeps, through adding
\* several under one key, deleting by pattern, refused paths and destruction
\* (lo_cpp.h:16-43, 445, 477-482, 569-574, 610).  The code keeps it but for
\* three cases: a thread that dispatches between the two steps of del_method; a
\* method added with NULL where another is deleted with "", or the other way
\* round, since one key stands for both; and a creation that fails in the
\* constructors that do not look for their handler.
CallbacksKept ==
    /\ called.closure \in gone =>
          \/ called.by = "race"
          \/ \E m \in methods : m.data = called.closure /\ Ambiguous(m)
    /\ called.closure = 0 => called.by \in {"nobody", "proto", "multicast"}
    /\ deleting = Null => \A m \in methods : m.data \in gone => Ambiguous(m)
=============================================================================
