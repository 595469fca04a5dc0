------------------------------- MODULE LoUrl --------------------------------
(***************************************************************************)
(* The URLs of addresses and servers (address.c, server.c): how they are   *)
(* written and how they are read, by a list of sscanf formats of which the *)
(* first that does not return 0 is taken.  sscanf returns 0 when something *)
(* does not match, and EOF, which is not 0, when the URL ends first: what  *)
(* is returned then was never written.                                     *)
(*                                                                         *)
(* A URL is a sequence of symbols: punctuation, the words of the formats   *)
(* and, for all other text, one digit and one letter.  The state machine   *)
(* writes a name, of a host or of a socket's file.                         *)
(***************************************************************************)
EXTENDS Integers, Sequences, SequencesExt

CONSTANTS
    Ports,          \* ports, as written
    Rests,          \* what may follow the port in a URL
    MaxName         \* bound: the symbols of a name

VARIABLE name

Digit == {"1"}
NameSymbol == Digit \cup {"h", ":", "/"}
Symbol == NameSymbol \cup {"osc", ".", "udp", "tcp", "unix", "localhost", "[", "]"}
Not(cs) == Symbol \ cs

\* A port is a number, and what follows it no digit.
ASSUME TextAssumption ==
    /\ Ports \subseteq Seq(Digit) \ {<<>>}
    /\ \A r \in Rests : r \in Seq(Symbol) /\ (r = <<>> \/ r[1] \notin Digit)

-----------------------------------------------------------------------------
(* sscanf with one conversion that is kept: literal text, %*[...], %[...].  *)
(* Each goes on with what the one before it left of the URL.               *)

Given(s) == [ret |-> 1, text |-> s]
NoMatch == [ret |-> 0, text |-> <<>>]
Unset == [ret |-> -1, text |-> <<>>]

Lit(r, cs) ==
    IF r.ret # 1 THEN r
    ELSE IF IsPrefix(cs, r.text) THEN Given(SubSeq(r.text, Len(cs) + 1, Len(r.text)))
    ELSE IF IsPrefix(r.text, cs) THEN Unset ELSE NoMatch

\* How many symbols of the set s begins with.
Span(s, set) ==
    LET other == SelectInSeq(s, LAMBDA c : c \notin set)
    IN  IF other = 0 THEN Len(s) ELSE other - 1

Some(r, set, text) ==
    IF r.ret # 1 THEN r
    ELSE IF r.text = <<>> THEN Unset
    ELSE IF r.text[1] \in set THEN Given(text) ELSE NoMatch

Skip(r, set) == Some(r, set, SubSeq(r.text, Span(r.text, set) + 1, Len(r.text)))
Take(r, set) == Some(r, set, SubSeq(r.text, 1, Span(r.text, set)))

\* The first result that is not 0, or NULL.
FirstOf(results) ==
    LET k == SelectInSeq(results, LAMBDA r : r.ret # 0)
    IN  IF k = 0 THEN NoMatch ELSE results[k]

OscSlashes(url) == Lit(Given(url), <<"osc", ":", "/", "/">>)
OscDot(url) == Lit(Given(url), <<"osc", ".">>)
Slashes(r) == Lit(r, <<":", "/", "/">>)
AnyScheme(url) == Slashes(Skip(OscDot(url), Not({":"})))

-----------------------------------------------------------------------------
(* Reading *)

lo_url_get_protocol(url) ==
    IF Take(OscSlashes(url), Symbol).ret # 0 THEN Given(<<"udp">>)
    ELSE Take(OscDot(url), Not({":", "/", "["}))

lo_url_get_protocol_id(url) ==
    IF IsPrefix(<<"osc", ":">>, url) THEN "udp"
    ELSE IF \E p \in {"udp", "tcp", "unix"} : IsPrefix(<<"osc", ".", p, ":">>, url) THEN url[3]
    ELSE "none"

lo_url_get_hostname(url) ==
    LET typed == Slashes(Skip(OscDot(url), Not({":", "/"})))
    IN  FirstOf(<<Take(OscSlashes(url), Not({"[", ":", "/"})),
                  Take(Lit(typed, <<"[">>), Not({"]", "/"})),
                  Take(typed, Not({"[", ":", "/"}))>>)

\* After a host, after one in brackets, and after none.
BarePort(r) == Take(Lit(Skip(r, Not({":"})), <<":">>), Digit)
QuotedPort(r) == Take(Lit(Skip(Lit(r, <<"[">>), Not({"]"})), <<"]", ":">>), Digit)
OnlyPort(r) == Take(Lit(r, <<":">>), Digit)

lo_url_get_port(url) ==
    LET osc == OscSlashes(url)
        any == AnyScheme(url)
    IN  FirstOf(<<BarePort(osc), BarePort(any), QuotedPort(osc), QuotedPort(any),
                  OnlyPort(osc), OnlyPort(any)>>)

PathAfterPort(r) == Take(Skip(Lit(Skip(r, Not({":"})), <<":">>), Digit), Symbol)

Trimmed(path) ==
    IF path.ret = 1 /\ Last(path.text) = "/" THEN [path EXCEPT !.text = Front(@)] ELSE path

\* Only the second format is asked for a 1.
lo_url_get_path(url) ==
    LET plain == PathAfterPort(OscSlashes(url))
        typed == PathAfterPort(AnyScheme(url))
        unix == Slashes(Lit(OscDot(url), <<"unix">>))
    IN  IF plain.ret # 0 THEN plain
        ELSE IF typed.ret = 1 THEN typed
        ELSE Trimmed(FirstOf(<<Take(Skip(unix, Not({"/"})), Symbol), Take(AnyScheme(url), Symbol)>>))

-----------------------------------------------------------------------------
(* Addresses and servers *)

Localhost == Given(<<"localhost">>)

lo_address_new_with_proto(proto, host, port) ==
    [proto |-> proto, host |-> IF proto = "unix" \/ host.ret = 0 THEN Localhost ELSE host,
     port |-> port]

\* What is returned for any other protocol.
Null == [proto |-> "none"]

lo_address_new_from_url(url) ==
    LET p == lo_url_get_protocol_id(url)
    IN  CASE p \in {"udp", "tcp"} ->
               lo_address_new_with_proto(p, lo_url_get_hostname(url), lo_url_get_port(url))
          [] p = "unix" -> lo_address_new_with_proto(p, NoMatch, lo_url_get_path(url))
          [] OTHER -> Null

\* What it passes to lo_server_new_with_proto_internal; the host is the group.
lo_server_new_from_url(url) ==
    LET p == lo_url_get_protocol_id(url)
    IN  CASE p \in {"udp", "tcp"} ->
               [proto |-> p, group |-> lo_url_get_hostname(url), port |-> lo_url_get_port(url)]
          [] p = "unix" -> [proto |-> p, group |-> NoMatch, port |-> lo_url_get_path(url)]
          [] OTHER -> Null

Has(s, c) == \E i \in DOMAIN s : s[i] = c

\* Seeded bug: no brackets around an IPv6 host.
AddressUrlBare(a) ==
    LET url == <<"osc", ".", a.proto, ":", "/", "/">> \o a.host.text \o <<":">> \o a.port.text
    IN  IF a.proto = "unix" THEN url ELSE Append(url, "/")

\* The slash at the end is taken back for a socket's file.
lo_address_get_url(a) ==
    LET host == IF Has(a.host.text, ":") THEN <<"[">> \o a.host.text \o <<"]">> ELSE a.host.text
        url == <<"osc", ".", a.proto, ":", "/", "/">> \o host \o <<":">> \o a.port.text
    IN  IF a.proto = "unix" THEN url ELSE Append(url, "/")

lo_server_get_url(proto, hostname, port) ==
    IF proto = "unix" THEN <<"osc", ".", proto, ":", "/", "/", "/">> \o port
    ELSE <<"osc", ".", proto, ":", "/", "/">> \o hostname \o <<":">> \o port \o <<"/">>

-----------------------------------------------------------------------------
UrlInit == name = <<>>
UrlNext == Len(name) < MaxName /\ \E c \in NameSymbol : name' = Append(name, c)

UrlSpec == UrlInit /\ [][UrlNext]_name

-----------------------------------------------------------------------------
(* Properties *)

IsHost == name # <<>> /\ ~Has(name, "/")
IsPath == Len(name) > 1 /\ name[1] = "/" /\ Last(name) # "/"

FirstColon == SelectInSeq(name, LAMBDA c : c = ":")
DigitAfter(i) == i # 0 /\ i < Len(name) /\ name[i + 1] \in Digit

\* An address is what is read from its URL, and from one that was cut after the
\* first digit of its port or goes on after the port: no part of a host is taken
\* for a port and nothing unset is read.  The code does this unless, in an IPv6
\* address, a digit follows the first colon.
HostReadsBack ==
    \A proto \in {"udp", "tcp"}, port \in Ports, rest \in Rests :
        LET a == lo_address_new_with_proto(proto, Given(name), Given(port))
            url == lo_address_get_url(a)
            end == Len(url) - 1             \* before the slash
            other == <<"osc", ":", "/", "/">> \o name \o <<":">> \o port \o rest
        IN  /\ \A cut \in 0..Len(port) - 1 :
                  lo_address_new_from_url(SubSeq(url, 1, end - cut))
                     = [a EXCEPT !.port = Given(SubSeq(port, 1, Len(port) - cut))]
            /\ lo_address_new_from_url(SubSeq(url, 1, end) \o rest) = a
            /\ lo_url_get_protocol(url) = Given(<<lo_url_get_protocol_id(url)>>)
            /\ FirstColon = 0 =>
                  /\ lo_address_new_from_url(lo_server_get_url(proto, name, port)) = a
                  /\ lo_server_new_from_url(url).group = a.host
                  /\ proto = "udp" => lo_address_new_from_url(other) = a
                  /\ rest # <<>> /\ Last(rest) # "/" => lo_url_get_path(other) = Given(rest)

\* The same of a socket's file.  A server's URL has one slash more than its path;
\* a URL without "localhost:" is misread when a colon and a digit are in the path.
FileReadsBack ==
    LET a == lo_address_new_with_proto("unix", NoMatch, Given(name))
        short == <<"osc", ".", "unix", ":", "/", "/">> \o name
    IN  /\ lo_address_new_from_url(lo_address_get_url(a)) = a
        /\ DigitAfter(FirstColon) \/
              /\ lo_address_new_from_url(short) = a
              /\ lo_server_new_from_url(short).port = a.port
              /\ lo_address_new_from_url(lo_server_get_url("unix", <<>>, name))
                    = [a EXCEPT !.port = Given(<<"/">> \o name)]

\* URLs say what they were made of (address.c:103, 247, 343-466; server.c:247, 2085).
UrlReadsBack ==
    /\ IsHost /\ ~DigitAfter(FirstColon) => HostReadsBack
    /\ IsPath => FileReadsBack
=============================================================================
