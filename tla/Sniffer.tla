------------------------------ MODULE Sniffer ------------------------------
(***************************************************************************)
(* What a relay reads off the first bytes of a connection                  *)
(* (tun/sniffer.rs): the server name of a TLS ClientHello, or the Host of  *)
(* an HTTP request.  The first read may end anywhere, so the parsers meet  *)
(* every prefix of what the app sends.  A ClientHello is its bytes, with a *)
(* random of RandomLen; a request is the sequence of its lines, a value    *)
(* the sequence of its bytes, a key any spelling of it.  Of a request no   *)
(* more is looked at than a window of 1024 bytes: the place in its lines   *)
(* where that ends goes with the request.                                  *)
(***************************************************************************)
EXTENDS Integers, SequencesExt, FiniteSetsExt

CONSTANTS
  RandomLen,  \* 32 in TLS
  Hellos,     \* the ClientHello records tried: [bytes, name]
  Requests,   \* the HTTP requests tried: [lines, window, name]; a line is
              \* [key, value], the key of the first is the method
  NoName

ASSUME SnifferConstants ==
  /\ RandomLen \in Nat
  /\ \A h \in Hellos : h.bytes \in Seq(0..255)
  /\ \A q \in Requests :
       /\ q.lines \in Seq([key : STRING, value : Seq(0..255)])
       /\ q.window.line \in 0..Len(q.lines) /\ q.window.column \in Nat
       /\ q.window.column > 0 => /\ q.window.line < Len(q.lines)
                                /\ q.window.column <= Len(q.lines[q.window.line + 1].value)

VARIABLES
  sent,   \* what the app sends: [kind, bytes | lines, name]
  line,   \* how many whole lines of a request have arrived
  column  \* how many bytes of a hello, or of the next value, have
sniffVars == <<sent, line, column>>

-----------------------------------------------------------------------------
(* Names. *)

Lower(n) == [i \in DOMAIN n |-> IF n[i] \in 65..90 THEN n[i] + 32 ELSE n[i]]

\* Without the leading, or the trailing, elements of a kind.
TrimStart(n, S) ==
  LET first == SelectInSeq(n, LAMBDA x : x \notin S)
  IN  IF first = 0 THEN <<>> ELSE SubSeq(n, first, Len(n))
TrimEnd(n, S) ==
  SubSeq(n, 1, SelectLastInSeq(n, LAMBDA x : x \notin S))

Dot == 46
Colon == 58
OpenBracket == 91
CloseBracket == 93
Brackets == {OpenBracket, CloseBracket}
HostOf(name) == Lower(TrimEnd(name, {Dot}))

-----------------------------------------------------------------------------
(* parse_client_hello_payload.  Places count from 0 as in the code. *)

At(d, i)      == d[i + 1]
U16(d, i)     == 256 * At(d, i) + At(d, i + 1)
Part(d, i, n) == SubSeq(d, i + 1, i + n)

\* How many bytes the character at place i of s takes, 0 if there is none.
Width(s, i) ==
  LET More(n) == \A k \in 1..n : i + k \in DOMAIN s /\ s[i + k] \in 128..191
  IN  CASE s[i] < 128                                    -> 1
        [] s[i] \in 194..223 /\ More(1)                  -> 2
        [] s[i] \in 224..239 /\ More(2)
             /\ (s[i] = 224 => s[i + 1] >= 160) /\ (s[i] = 237 => s[i + 1] < 160) -> 3
        [] s[i] \in 240..244 /\ More(3)
             /\ (s[i] = 240 => s[i + 1] >= 144) /\ (s[i] = 244 => s[i + 1] < 144) -> 4
        [] OTHER                                         -> 0

\* str::from_utf8 takes s.
Utf8(s) ==
  LET From[i \in 1..(Len(s) + 1)] ==
        i = Len(s) + 1 \/ (Width(s, i) > 0 /\ From[i + Width(s, i)])
  IN  From[1]

\* The first host name of a server_name extension.
NameIn(ext) ==
  LET From[i \in 0..(Len(ext) + 1)] ==
        IF i + 3 > Len(ext) THEN NoName
        ELSE LET after == i + 3 + U16(ext, i + 1)
                 name  == Part(ext, i + 3, after - i - 3)
             IN  CASE after > Len(ext)                -> NoName
                   [] after <= Len(ext) /\ At(ext, i) = 0 /\ Utf8(name) -> name
                   [] OTHER                           -> From[after]
  IN  IF Len(ext) < 2 THEN NoName ELSE From[2]

\* Walks the extensions between start and end: one that is not all there ends it.
NameFrom(d, start, end) ==
  LET From[c \in 0..end] ==
        IF c + 4 > end \/ c + 4 + U16(d, c + 2) > end THEN NoName
        ELSE LET name == NameIn(Part(d, c + 4, U16(d, c + 2)))
             IN  IF U16(d, c) = 0 /\ name # NoName THEN name ELSE From[c + 4 + U16(d, c + 2)]
  IN  IF start > end THEN NoName ELSE From[start]

\* Past a vector whose length takes width bytes; to the end if it is cut.
Skip(d, c, width) ==
  IF c + width > Len(d) THEN Len(d)
  ELSE c + width + (IF width = 1 THEN At(d, c) ELSE U16(d, c))

\* The session id, the cipher suites and the compression methods go by.
Extensions(d) == Skip(d, Skip(d, Skip(d, 6 + RandomLen, 1), 2), 1)

AtMost(a, b) == IF a < b THEN a ELSE b

ClientHelloName(d) ==
  IF Len(d) < 6 + RandomLen \/ At(d, 0) # 1 THEN NoName
  ELSE LET c == Extensions(d)
       IN  IF c + 2 > Len(d) THEN NoName
           ELSE NameFrom(d, c + 2, AtMost(c + 2 + U16(d, c), Len(d)))

\* parse_tls_sni: of the first record, what has arrived of it.
TlsName(buf) ==
  IF Len(buf) < 5 \/ At(buf, 0) # 22 THEN NoName
  ELSE LET n == ClientHelloName(Part(buf, 5, AtMost(U16(buf, 3), Len(buf) - 5)))
       IN  IF n = NoName THEN NoName ELSE HostOf(n)

-----------------------------------------------------------------------------
(* parse_http_host. *)

\* What follows the last colon goes, unless the value opens a bracket and does
\* not close it at its end.
StripPort(v) ==
  LET colon == SelectLastInSeq(v, LAMBDA x : x = Colon)
  IN  IF colon > 0 /\ (v[1] # OpenBracket \/ Last(v) = CloseBracket)
      THEN SubSeq(v, 1, colon - 1) ELSE v

\* ASCII white space; a value that has other white space at an end is not tried.
Spaces == {9, 10, 11, 12, 13, 32}
Trimmed(v) == TrimStart(TrimEnd(v, Spaces), Spaces)

Cleaned(v) == HostOf(TrimStart(TrimEnd(StripPort(Trimmed(v)), Brackets), Brackets))

\* Mutant: the body is searched as well.
MutWholeText(lines) == DOMAIN lines

\* The places of the header: an empty line ends it.
Header(lines) == {i \in DOMAIN lines : \A j \in 1..i : lines[j].key # "blank"}

NamesHost(l) == l.key = "Host" /\ Cleaned(l.value) # <<>>

\* Mutant: a later Host line overrides an earlier one.
MutLastHost(lines) ==
  LET hosts == {i \in Header(lines) : NamesHost(lines[i])}
  IN  IF hosts = {} THEN NoName ELSE Cleaned(lines[Max(hosts)].value)

\* The first Host line that leaves a name.
FirstHost(lines) ==
  LET hosts == {i \in Header(lines) : NamesHost(lines[i])}
  IN  IF hosts = {} THEN NoName ELSE Cleaned(lines[Min(hosts)].value)

HttpMethods == {"GET", "POST", "HEAD", "PUT", "DELETE", "OPTIONS", "CONNECT", "PATCH"}

\* It starts with a method, and all of it is text.
IsRequest(lines) ==
  /\ lines # <<>> /\ lines[1].key \in HttpMethods
  /\ \A i \in DOMAIN lines : Utf8(lines[i].value)

HttpHost(lines) == IF IsRequest(lines) THEN FirstHost(lines) ELSE NoName

-----------------------------------------------------------------------------
(* The app's bytes arrive. *)

SniffInit ==
  /\ sent \in {[kind |-> "tls", what |-> h] : h \in Hellos} \cup
              {[kind |-> "http", what |-> q] : q \in Requests}
  /\ line = 0 /\ column = 0

\* One more byte of the hello.
HelloGrows ==
  /\ sent.kind = "tls" /\ column < Len(sent.what.bytes)
  /\ column' = column + 1
  /\ UNCHANGED <<sent, line>>

\* One more byte of a line's value, or the end of the line.
RequestGrows ==
  /\ sent.kind = "http" /\ line < Len(sent.what.lines)
  /\ IF column < Len(sent.what.lines[line + 1].value)
     THEN column' = column + 1 /\ UNCHANGED line
     ELSE column' = 0 /\ line' = line + 1
  /\ UNCHANGED sent

SniffNext == HelloGrows \/ RequestGrows

\* What has arrived goes past the window.
Overlong ==
  /\ sent.kind = "http"
  /\ \/ line > sent.what.window.line
     \/ line = sent.what.window.line /\ column > sent.what.window.column

\* Where the text ends that the parser is given.
End == IF Overlong THEN sent.what.window ELSE [line |-> line, column |-> column]

\* Its lines, the last one perhaps cut.
Lines ==
  SubSeq(sent.what.lines, 1, End.line) \o
  (IF End.column = 0 THEN <<>>
   ELSE <<[sent.what.lines[End.line + 1] EXCEPT !.value = SubSeq(@, 1, End.column)]>>)

\* sniff_tcp, were this the first read.
Sniffed ==
  IF sent.kind = "tls" THEN TlsName(SubSeq(sent.what.bytes, 1, column)) ELSE HttpHost(Lines)

-----------------------------------------------------------------------------
(* Properties. *)

\* The read, or the window, ends inside the value of a Host line.
CutInHost ==
  /\ sent.kind = "http" /\ End.column > 0
  /\ sent.what.lines[End.line + 1].key = "Host"
  /\ End.column < Len(sent.what.lines[End.line + 1].value)
CutName == Cleaned(SubSeq(sent.what.lines[End.line + 1].value, 1, End.column))

Whole == IF sent.kind = "tls" THEN column = Len(sent.what.bytes)
         ELSE line = Len(sent.what.lines)
WholeName ==
  IF sent.kind = "tls" THEN TlsName(sent.what.bytes) ELSE FirstHost(sent.what.lines)

\* Wherever the first read ends, and wherever the window, the sniffer answers no
\* name but the one that the first Host line, or the hello, has as a whole; only
\* if the text ends inside the value of that line it may answer what it makes of
\* the part, which it cannot tell from a name.
NeverMisread ==
  Sniffed \in {NoName, WholeName} \cup (IF CutInHost THEN {CutName} ELSE {})

\* An address in brackets comes out wrong, with a port or without.
Bracketed ==
  sent.kind = "http" /\ \E i \in DOMAIN sent.what.lines :
    /\ sent.what.lines[i].key = "Host" /\ sent.what.lines[i].value # <<>>
    /\ sent.what.lines[i].value[1] = OpenBracket

\* But for an address in brackets, what is read is the name the app asked for, or
\* nothing, or a head of that name when the text ends inside it; and it is the
\* name when all of the text is there, within the window, and is text.
NameTrue ==
  ~Bracketed =>
    /\ \/ Sniffed \in {NoName, sent.what.name}
       \/ CutInHost /\ sent.what.name # NoName /\ IsPrefix(Sniffed, sent.what.name)
    /\ Whole /\ ~Overlong /\ (sent.kind = "http" => IsRequest(Lines)) => Sniffed = sent.what.name
=============================================================================
