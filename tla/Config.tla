-------------------------------- MODULE Config --------------------------------
(***************************************************************************)
(* From the command line to a RuntimeConfig: RuntimeConfig::from_cli and   *)
(* new (src/src/config.rs), parse_portset (src/src/portset.rs), and        *)
(* TargetAddr::bind with its split_host_port (src/src/target.rs).          *)
(*                                                                         *)
(* An argument is a sequence of tokens: a number stands for its digits,    *)
(* and a negative code for a character that matters to a parser, for a     *)
(* host name or for an IPv4 literal.  A number above MaxPort stands for    *)
(* every text that does not parse as an u16.                               *)
(***************************************************************************)
EXTENDS Integers, Sequences, PortNumbers

CONSTANTS
  PortsArgs,   \* bound: the values of --listen-ports
  TargetArgs   \* bound: the values of --target

Comma == -1
Dash == -2
Blank == -3
Plus == -4
Colon == -5
LBracket == -6
RBracket == -7
Name == -8
V4 == -9
Token == Nat \cup (V4 .. Comma)

ASSUME ConfigAssumption ==
  /\ PortsArgs \subseteq Seq(Token) /\ TargetArgs \subseteq Seq(Token)

\* IPv6 literals: `::`, and `::n`, whose group has at most four digits.  Longer
\* ones have no tokens of their own.
V6 == {<<Colon, Colon>>} \cup {<<Colon, Colon, n>> : n \in {k \in 0 .. MaxPort : k < 10000}}

VARIABLES
  stage,   \* how far from_cli has come
  arg,     \* the argument it reads
  pos,     \* parse_portset: where the next segment begins
  ports,   \* parse_portset: the BTreeSet; then listen_ports
  target   \* the TargetAddr: its kind, the host and the port to forward to

configVars == <<stage, arg, pos, ports, target>>

NoPort == -10
NoTarget == [kind |-> "none", host |-> <<>>, port |-> NoPort]

ConfigInit ==
  /\ stage = "ports"
  /\ arg \in PortsArgs
  /\ pos = 1 /\ ports = {}
  /\ target = NoTarget

-----------------------------------------------------------------------------
(* Texts.                                                                  *)

\* The positions of a token in a text, and the first of them from i on (one
\* past the end if there is none).
At(s, token) == {i \in 1 .. Len(s) : s[i] = token}
FirstAt(s, token, i) ==
  CHOOSE j \in i .. Len(s) + 1 :
    /\ j \in At(s, token) \/ j = Len(s) + 1
    /\ \A k \in i .. j - 1 : s[k] # token
LastAt(s, token) == CHOOSE j \in At(s, token) : \A k \in At(s, token) : k <= j

Before(s, i) == SubSeq(s, 1, i - 1)
After(s, i) == SubSeq(s, i + 1, Len(s))

\* str::trim
Inked(s) == {i \in 1 .. Len(s) : s[i] # Blank}
Trim(s) ==
  IF Inked(s) = {} THEN <<>>
  ELSE LET first == CHOOSE i \in Inked(s) : \A k \in Inked(s) : i <= k
           last  == CHOOSE i \in Inked(s) : \A k \in Inked(s) : k <= i
       IN  SubSeq(s, first, last)

\* str::parse::<u16>(): digits, or a plus sign and digits.
U16(s) ==
  IF Len(s) \in {1, 2} /\ s[Len(s)] \in 0 .. MaxPort /\ (Len(s) = 2 => s[1] = Plus)
  THEN s[Len(s)] ELSE NoPort

\* parse_port, of both files: a number, but not zero.
ParsePort(s) == IF U16(s) = 0 THEN NoPort ELSE U16(s)

-----------------------------------------------------------------------------
(* parse_portset, segment by segment.                                      *)

\* Mutant of RangePorts: an exclusive range.
RangePortsOpen(lo, hi) ==
  IF NoPort \in {lo, hi} \/ lo > hi THEN {} ELSE {n \in Ports : lo <= n /\ n < hi}

\* Both ends are ports and in order: every port between them; otherwise none,
\* which stands for the error.
RangePorts(lo, hi) == IF NoPort \in {lo, hi} \/ lo > hi THEN {} ELSE lo .. hi

SegmentPorts(s) ==
  LET dash == FirstAt(s, Dash, 1)
  IN  IF At(s, Dash) # {}
      THEN RangePorts(ParsePort(Trim(Before(s, dash))), ParsePort(Trim(After(s, dash))))
      ELSE {ParsePort(s)} \ {NoPort}

SegmentEnd == FirstAt(arg, Comma, pos) - 1
Segment == Trim(SubSeq(arg, pos, SegmentEnd))
PortsRead == pos > Len(arg) + 1

ReadSegment ==
  /\ stage = "ports" /\ ~PortsRead
  /\ SegmentPorts(Segment) # {}
  /\ ports' = ports \cup SegmentPorts(Segment)
  /\ pos' = SegmentEnd + 2
  /\ UNCHANGED <<stage, arg, target>>

RejectPorts ==
  /\ stage = "ports" /\ ~PortsRead
  /\ SegmentPorts(Segment) = {}
  /\ stage' = "badPorts"
  /\ UNCHANGED <<arg, pos, ports, target>>

-----------------------------------------------------------------------------
(* TargetAddr::bind.                                                       *)

HostPort(host, port) == [host |-> host, port |-> port]
BadTarget == HostPort(<<>>, NoPort)

\* [host]:port, up to the first closing bracket.
SplitBracketed(raw) ==
  LET end == FirstAt(raw, RBracket, 1)
      port == ParsePort(After(raw, end + 1))
  IN  IF end < Len(raw) /\ raw[end + 1] = Colon /\ port # NoPort
      THEN HostPort(SubSeq(raw, 2, end - 1), port) ELSE BadTarget

\* Mutant of SplitPlain: split at the first colon.
SplitPlainFirst(raw) ==
  LET colon == FirstAt(raw, Colon, 1)
      port == ParsePort(After(raw, colon))
  IN  IF At(raw, Colon) # {} /\ colon > 1 /\ port # NoPort
      THEN HostPort(Before(raw, colon), port) ELSE BadTarget

\* host:port, split at the last colon.
SplitPlain(raw) ==
  LET colon == LastAt(raw, Colon)
      port == ParsePort(After(raw, colon))
  IN  IF At(raw, Colon) # {} /\ colon > 1 /\ port # NoPort
      THEN HostPort(Before(raw, colon), port) ELSE BadTarget

SplitHostPort(raw) ==
  IF raw # <<>> /\ raw[1] = LBracket THEN SplitBracketed(raw) ELSE SplitPlain(raw)

\* raw.parse::<SocketAddr>(): an address of the standard library's syntax.
Literals(n) ==
  {<<V4, Colon, n>>} \cup {<<LBracket>> \o host \o <<RBracket, Colon, n>> : host \in V6}
IsLiteral(raw) == \E n \in 0 .. MaxPort : raw \in Literals(n)
LiteralAddr(raw) ==
  [kind |-> "static",
   host |-> IF raw[1] = V4 THEN <<V4>> ELSE SubSeq(raw, 2, Len(raw) - 3),
   port |-> raw[Len(raw)]]

\* The port set is complete; --target is read next.
PortsDone ==
  /\ stage = "ports" /\ PortsRead
  /\ stage' = "bind"
  /\ arg' = <<>> /\ pos' = 0
  /\ UNCHANGED <<ports, target>>

TakeTarget ==
  /\ stage = "bind"
  /\ stage' = "target"
  /\ arg' \in TargetArgs
  /\ UNCHANGED <<pos, ports, target>>

RejectTarget ==
  /\ stage = "target"
  /\ SplitHostPort(arg) = BadTarget
  /\ stage' = "badTarget"
  /\ UNCHANGED <<arg, pos, ports, target>>

BindStatic ==
  /\ stage = "target"
  /\ SplitHostPort(arg) # BadTarget /\ IsLiteral(arg)
  /\ target' = LiteralAddr(arg)
  /\ stage' = "new"
  /\ UNCHANGED <<arg, pos, ports>>

BindDynamic ==
  /\ stage = "target"
  /\ SplitHostPort(arg) # BadTarget /\ ~IsLiteral(arg)
  /\ LET hp == SplitHostPort(arg)
     IN  target' = [kind |-> "dynamic", host |-> hp.host, port |-> hp.port]
  /\ stage' = "resolve"
  /\ UNCHANGED <<arg, pos, ports>>

\* build_resolver and the first resolve_once.
Resolve ==
  /\ stage = "resolve"
  /\ stage' \in {"new", "badTarget"}
  /\ UNCHANGED <<arg, pos, ports, target>>

-----------------------------------------------------------------------------
(* RuntimeConfig::new, which also refuses values that are zero.            *)

New ==
  /\ stage = "new"
  /\ \E udp_idle_timeout, stats_window, max_tcp_connections \in {0, 1} :
       stage' = IF ports = {} \/ 0 \in {udp_idle_timeout, stats_window, max_tcp_connections}
                THEN "badValue" ELSE "done"
  /\ UNCHANGED <<arg, pos, ports, target>>

FromCli ==
  \/ ReadSegment \/ RejectPorts \/ PortsDone \/ TakeTarget
  \/ RejectTarget \/ BindStatic \/ BindDynamic \/ Resolve \/ New

ConfigSpec == ConfigInit /\ [][FromCli]_configVars

-----------------------------------------------------------------------------
(* What the arguments mean, by the texts that express it.                  *)

Numerals(n) == {<<n>>, <<Plus, n>>}

\* A target is host:port, or [host]:port when the host has no closing bracket.
Bracketed(host, port) == {<<LBracket>> \o host \o <<RBracket, Colon>> \o n : n \in Numerals(port)}
Plain(host, port) == {host \o <<Colon>> \o n : n \in Numerals(port)}
Written(host, port) ==
  (IF At(host, RBracket) = {} THEN Bracketed(host, port) ELSE {})
    \cup (IF host # <<>> /\ host[1] # LBracket THEN Plain(host, port) ELSE {})

\* The target that is bound is the one --target writes down, whether the
\* literal parser or split_host_port took it apart; and an argument is refused
\* before any lookup only when it writes down none.
TargetAsWritten ==
  /\ target # NoTarget => arg \in Written(target.host, target.port)
  /\ stage = "badTarget" /\ target = NoTarget =>
       \A i, j \in 1 .. Len(arg) + 1, port \in Ports :
         arg \notin Written(SubSeq(arg, i, j - 1), port)

\* From i to j a text holds the number n: its digits, a plus sign right before
\* them perhaps, and blanks around them.
Number(s, i, j, n) ==
  \E l \in i .. j :
    /\ s[l] = n
    /\ \A k \in i .. j \ {l} : s[k] = Blank \/ (k = l - 1 /\ s[k] = Plus)

\* n is the port it holds, or in the range it holds.
Denotes(s, i, j, n) ==
  \/ Number(s, i, j, n)
  \/ \E d \in i .. j, lo, hi \in Ports :
       /\ s[d] = Dash /\ Number(s, i, d - 1, lo) /\ Number(s, d + 1, j, hi)
       /\ lo <= n /\ n <= hi

\* Its parts between commas, by their first and last positions.
Segments(s) ==
  {g \in (1 .. Len(s) + 1) \X (0 .. Len(s)) :
     /\ g[1] <= g[2] + 1
     /\ g[1] = 1 \/ s[g[1] - 1] = Comma
     /\ g[2] = Len(s) \/ s[g[2] + 1] = Comma
     /\ \A k \in g[1] .. g[2] : s[k] # Comma}

Meaning(s, g) == {n \in Ports : Denotes(s, g[1], g[2], n)}

\* parse_portset accepts a list of ports and ranges, as README.md:65 and
\* cli.rs:18 describe it, and no other text, and returns the set of the ports
\* that are in the list.
PortsAsWritten ==
  /\ stage = "ports" /\ PortsRead =>
       /\ \A g \in Segments(arg) : Meaning(arg, g) # {}
       /\ ports = UNION {Meaning(arg, g) : g \in Segments(arg)}
  /\ stage = "badPorts" => \E g \in Segments(arg) : Meaning(arg, g) = {}

\* Every accepted port is a valid one and there is at least one, so the check
\* for an empty list in RuntimeConfig::new never fires after from_cli.
PortsValid ==
  /\ ports \subseteq Ports
  /\ stage \notin {"ports", "badPorts"} => ports # {}
=============================================================================
