--------------------------- MODULE LoEnumeration ----------------------------
(***************************************************************************)
(* The enumeration of methods (server.c, the end of dispatch_method): a    *)
(* message to a path that ends in a slash is answered with the names that  *)
(* come next in the paths of the methods below it, if the methods that     *)
(* were called for it leave a return value of 1.                           *)
(*                                                                         *)
(* The state machine adds methods; requests are what the property asks.    *)
(* Paths are sequences of characters.                                      *)
(***************************************************************************)
EXTENDS Integers, Sequences, SequencesExt

CONSTANTS
    PathChar,       \* the characters of paths
    MethodPaths,    \* paths of methods, and NULL
    AnyPath,        \* NULL, for every path; in its place a sequence without a slash
    Returns,        \* what handlers return
    MaxMethods      \* bound

ASSUME PathAssumption ==
    /\ "/" \in PathChar
    /\ MethodPaths \cup {AnyPath} \subseteq Seq(PathChar)
    /\ \A i \in DOMAIN AnyPath : AnyPath[i] # "/"

VARIABLE registry   \* the server's methods: [path |-> , ret |-> ]

\* A method's path is no pattern: lo_server_add_method refuses it, and NULL is none.
PatternChar == {" ", "#", "*", ",", "?", "[", "]", "{", "}"}

lo_server_add_method(path, ret) ==
    /\ Len(registry) < MaxMethods
    /\ path = AnyPath \/ \A i \in DOMAIN path : path[i] \notin PatternChar
    /\ registry' = Append(registry, [path |-> path, ret |-> ret])

\* ret after the methods for a path that is no pattern: 1 when there are none,
\* else what the first returns that returns 0, or the last.
LastReturn(path) ==
    LET called == {i \in DOMAIN registry : registry[i].path \in {path, AnyPath}}
    IN  IF called = {} THEN 1
        ELSE IF \E i \in called : registry[i].ret = 0 THEN 0
        ELSE registry[Max(called)].ret

\* Seeded bug: the rest of the path is not cut at its next slash.
RestOfPath(path, len) == SubSeq(path, len + 1, Len(path))

\* What follows the first len characters, up to the next slash.
NextName(path, len) ==
    LET rest == SubSeq(path, len + 1, Len(path))
        sec == SelectInSeq(rest, LAMBDA c : c = "/")
    IN  IF sec = 0 THEN rest ELSE SubSeq(rest, 1, sec - 1)

\* The names in the reply so far, and that of the i-th method if it is below the
\* path and its name is not among them.
AddName(path, i, sl) ==
    LET tmp == NextName(registry[i].path, Len(path))
    IN  IF registry[i].path # AnyPath /\ IsPrefix(path, registry[i].path) /\ tmp \notin ToSet(sl)
        THEN Append(sl, tmp) ELSE sl

\* The names in the reply: those of the methods below the path, each once.
ReplyNames(path) ==
    LET sl[i \in 0 .. Len(registry)] == IF i = 0 THEN <<>> ELSE AddName(path, i, sl[i - 1])
    IN  sl[Len(registry)]

\* Is there a reply at all; a UDP server's.
Replies(path) == Last(path) = "/" /\ LastReturn(path) = 1

EnumInit == registry = <<>>
EnumNext == \E p \in MethodPaths, r \in Returns : lo_server_add_method(p, r)

EnumSpec == EnumInit /\ [][EnumNext]_registry

-----------------------------------------------------------------------------
(* Properties *)

\* The ways to ask for a path: each beginning of it that ends in a slash.
Asks(path) == {SubSeq(path, 1, i) : i \in {j \in DOMAIN path : path[j] = "/"}}

\* Did a method take the request: its path is this one, or NULL, and it returned
\* something other than 1.
Taken(path) == \E m \in ToSet(registry) : m.path \in {path, AnyPath} /\ m.ret # 1

\* A client that asks for "/" and then for each name it is told, with a slash
\* after it, comes to every method, and to nothing that is no method and has none
\* below it; it is told each name once, those of earlier methods first.  Only a
\* method that takes the request itself hides what is below it
\* (server.c:1809-1872).
EnumerationFindsAll ==
    \A m \in ToSet(registry) : m.path # AnyPath => \A ask \in Asks(m.path) :
        LET names == ReplyNames(ask)
            Below(n) == {i \in DOMAIN registry :
                            registry[i].path = ask \o names[n]
                            \/ IsPrefix(ask \o names[n] \o <<"/">>, registry[i].path)}
            First(n) == CHOOSE i \in Below(n) : \A j \in Below(n) : i <= j
        IN  \/ Taken(ask)
            \/ /\ Replies(ask)
               /\ \E n \in DOMAIN names :
                     m.path = ask \o names[n] \/ IsPrefix(ask \o names[n] \o <<"/">>, m.path)
               /\ \A n \in DOMAIN names : Below(n) # {}
               /\ \A n, k \in DOMAIN names : n < k => First(n) < First(k)
=============================================================================
