------------------------------ MODULE Commands -----------------------------
(***************************************************************************)
(* What a board does with the commands of its server (netprot_get_commands *)
(* and CommandParser/): bytes come from a TCP stream in pieces of any      *)
(* size, strtok() cuts a piece into lines, a line is matched with the      *)
(* table of commands, and SET, GET and RESET work on the parameters.       *)
(*                                                                         *)
(* A line is a sequence of tokens: words, signs and digits.  A piece may   *)
(* end between any two tokens.  The build is that of the ADC board, the    *)
(* only one whose netprot_cmd_start compiles.                              *)
(***************************************************************************)
EXTENDS Integers, Sequences, SequencesExt

CONSTANTS
    Lines,          \* lines the server may send
    Longer,         \* words that begin with a name of a table, and that name
    Width,          \* characters of a token
    CommandStrLen,  \* size of commandstr, in tokens
    StrValSize,     \* NETPROT_PARAMS_STRVALSIZE
    DefaultDelay,   \* CONFIG_IGNORE_NBUFFERS
    BoardType,      \* CONFIG_BOARD_TYPE_STRING, a sequence of tokens
    Meaning,        \* what the server means by a line, for the properties
    MaxLines        \* bound: lines sent, and connections lost

EOL     == "\n"
Quote   == "'"
Signs   == {"+", "-"}
Digits  == {"0", "1", "2", "7"}
Special == {"=", "+OK", Quote} \cup Signs      \* every other word is letters and digits
DigitOf == [d \in Digits |-> CASE d = "0" -> 0 [] d = "1" -> 1 [] d = "2" -> 2 [] d = "7" -> 7]
Verbs   == {"+OK", "PING", "SET", "GET", "START", "STOP", "RESET"}
Attrs   == [CHANNEL |-> {"NAME", "DELAY"}, BOARD |-> {"TYPE"}]

Hangup  == <<"hangup">>         \* in log: the connection ended
Tokens  == (UNION {Range(l) : l \in Lines}) \cup Range(Longer)

ASSUME CommandsAssumption ==
    /\ Lines \subseteq Seq(Tokens) \ {<<>>, Hangup} /\ EOL \notin Tokens
    /\ DOMAIN Longer \cap (Verbs \cup DOMAIN Attrs \cup {""}) = {}
    /\ Width \in [Tokens -> Nat] /\ CommandStrLen \in Nat \ {0} /\ StrValSize \in Nat \ {0}
    /\ DefaultDelay \in Int /\ MaxLines \in Nat

VARIABLES
    stream,     \* bytes of the server that recv() has not returned
    todo,       \* lines of commandstr that strtok() has yet to return
    out,        \* outstr
    params,     \* strval or intval of the parameters
    lost,       \* has BOARD's entry been overwritten?
    running,    \* is the trigger started?
    latched,    \* the delay capture_setup got
    failed,     \* has send() failed? Main has yet to see it
    (* history *)
    pending,    \* lines the server sent that were not handled
    log,        \* lines handled and connections lost
    answers,    \* the reply to each of them
    asked,      \* every line ever sent
    cut         \* has a recv() returned a part of a line?

device  == <<params, lost, running, latched>>
history == <<pending, log, answers, asked, cut>>
vars    == <<stream, todo, out, failed, device, history>>

Text(s)   == [text |-> s]
Garbage   == Text("garbage")    \* outstr is not initialized
Empty     == Text("")
Truncated == Text("cut")        \* send() took a part of the reply
Closed    == Text("closed")
-----------------------------------------------------------------------------
(* Reading a line *)

Word(l, i)  == IF i \in 1 .. Len(l) THEN l[i] ELSE ""
NameIn(w)   == IF w \in DOMAIN Longer THEN Longer[w] ELSE w
Command(l)  == NameIn(l[1])
Known(l)    == Command(l) \in Verbs

(* What follows the verb's name; of a longer word it begins inside that    *)
(* word.  A longer word than an object's is the object, and what follows.  *)
Arguments(l) ==
    LET args == IF l[1] \in Verbs THEN Tail(l) ELSE l
    IN  IF Word(args, 1) \in DOMAIN Longer THEN <<Longer[Word(args, 1)]>> \o args ELSE args

ObjectOf(args)    == Word(args, 1)
Objects           == DOMAIN Attrs \ IF lost THEN {"BOARD"} ELSE {}
AttrOf(args)      == NameIn(Word(args, 2))
HasAttr(o, a)     == a \in Attrs[o]
IsReadOnly(a)     == a = "TYPE"
IsInt(a)          == a = "DELAY"

(* The value of an assignment.  A number may be a sign alone, and its base *)
(* is that of its beginning; a string has letters and digits only, and     *)
(* needs its closing quote.                                                *)
ValueOf(args) == SubSeq(args, 4, Len(args))
IsNumber(v)   == Word(v, 1) \in Signs \cup Digits
Closing(v)    == {k \in 3 .. Len(v) : v[k] = Quote /\ \A j \in 2 .. k - 1 : v[j] \notin Special}
OpenString(v) == Word(v, 1) = Quote /\ Len(v) > 1        \* slip: the line's end closes it
IsString(v)   == Word(v, 1) = Quote /\ Closing(v) # {}
Content(v)    == SubSeq(v, 2, Min(Closing(v) \cup {Len(v) + 1}) - 1)
IsAssignment(args) ==
    Word(args, 3) = "=" /\ (IsNumber(ValueOf(args)) \/ IsString(ValueOf(args)))

(* strtol() reads up to the first token that is not a digit. *)
IsHex(v)    == Word(v, 1) = "0" /\ Word(v, 2) = "x"
Base(v)     == IF IsHex(v) THEN 16 ELSE IF Word(v, 1) = "0" THEN 8 ELSE 10
Leading(v)  == SubSeq(v, 1, Min({k \in 1 .. Len(v) : v[k] \notin Digits} \cup {Len(v) + 1}) - 1)
Figures(v)  == Leading(IF IsHex(v) THEN SubSeq(v, 3, Len(v)) ELSE v)
Upto(ds, base) ==
    LET value[k \in 0 .. Len(ds)] == IF k = 0 THEN 0 ELSE base * value[k - 1] + DigitOf[ds[k]]
    IN  value
Natural(v)  == Upto(Figures(v), Base(v))[Len(Figures(v))]
Unsigned(v) == Natural(IF v[1] \in Signs THEN Tail(v) ELSE v)    \* slip: the sign is skipped
strtol(v)   == IF v[1] = "-" THEN -Natural(Tail(v)) ELSE Natural(IF v[1] = "+" THEN Tail(v) ELSE v)

Widths(s)  == LET width[k \in 0 .. Len(s)] == IF k = 0 THEN 0 ELSE width[k - 1] + Width[s[k]]
              IN  width
strlen(s)  == Widths(s)[Len(s)]
OffByOne(s) == strlen(s) > StrValSize      \* slip: no room for the terminator
TooLong(s) == strlen(s) + 1 >= StrValSize
-----------------------------------------------------------------------------
(* Receiving *)

TypeOK ==
    /\ DOMAIN params = {"NAME", "DELAY", "TYPE"} /\ params.DELAY \in Int
    /\ lost \in BOOLEAN /\ failed \in BOOLEAN /\ running \in BOOLEAN /\ latched \in Int /\ cut \in BOOLEAN
    /\ Len(answers) = Len(log) /\ (todo = <<>> => out = Closed) /\ (failed => todo = <<>>)
    /\ asked \subseteq Lines /\ pending \in Seq(Lines)

Defaults == [NAME |-> <<>>, DELAY |-> DefaultDelay, TYPE |-> BoardType]

Init ==
    /\ stream = <<>> /\ todo = <<>> /\ out = Closed /\ failed = FALSE
    /\ params = Defaults /\ lost = FALSE
    /\ running = FALSE /\ latched = 0
    /\ pending = <<>> /\ log = <<>> /\ answers = <<>> /\ asked = {} /\ cut = FALSE

(* The server sends a line; it need not wait for the last one's reply. *)
ServerSends ==
    \E l \in Lines :
        /\ Len(log) + Len(pending) < MaxLines
        /\ stream' = stream \o Append(l, EOL)
        /\ pending' = Append(pending, l) /\ asked' = asked \cup {l}
        /\ UNCHANGED <<todo, out, failed, device, log, answers, cut>>

(* strtok(commandstr, "\r\n"): a line begins at a token behind an end of   *)
(* line; so empty lines are skipped.                                       *)
Token(ls, last, t) ==
    IF t = EOL THEN ls
    ELSE IF last = EOL THEN Append(ls, <<t>>) ELSE [ls EXCEPT ![Len(ls)] = Append(@, t)]
Scan(s) ==
    LET lines[k \in 0 .. Len(s)] ==
            IF k = 0 THEN <<>> ELSE Token(lines[k - 1], IF k = 1 THEN EOL ELSE s[k - 1], s[k])
    IN  lines
strtok(s) == Scan(s)[Len(s)]

CutsLine(n) == stream[n] # EOL /\ (n = Len(stream) \/ stream[n + 1] # EOL)

(* recv() returns what there is, up to the size of the buffer. *)
Receive ==
    /\ todo = <<>> /\ ~failed
    /\ \E n \in 1 .. Len(stream) :
        /\ n <= CommandStrLen
        /\ todo' = strtok(SubSeq(stream, 1, n))
        /\ stream' = SubSeq(stream, n + 1, Len(stream))
        /\ cut' = (cut \/ CutsLine(n))
    /\ out' = IF todo' = <<>> THEN Closed ELSE Garbage
    /\ UNCHANGED <<failed, device, pending, log, answers, asked>>
-----------------------------------------------------------------------------
(* One line of commandstr: the command, then the reply that is in outstr   *)

Line == todo[1]

(* Lines are logged until the first is cut: then no line of the server's   *)
(* corresponds to one of the board's.                                      *)
Logged(reply) ==
    IF cut THEN UNCHANGED <<pending, log, answers>>
    ELSE log' = Append(log, Line) /\ pending' = Tail(pending) /\ answers' = Append(answers, reply)

AllLeft   == Tail(todo)         \* slip: the loop goes on after an error
LinesLeft == IF failed' THEN <<>> ELSE Tail(todo)

(* send() takes all of the reply, a part of it, or fails: then the lines   *)
(* left are not handled.                                                   *)
Sent(reply) ==
    /\ \/ Logged(reply) /\ failed' = FALSE
       \/ reply # Empty /\ Logged(Truncated) /\ failed' = FALSE
       \/ Logged(Truncated) /\ failed' = TRUE
    /\ todo' = LinesLeft
    /\ out' = IF todo' = <<>> THEN Closed ELSE reply
    /\ UNCHANGED <<stream, asked, cut>>

SameType(v, a) == IsNumber(v) <=> IsInt(a)

SetReply(args, objects) ==
    LET o == ObjectOf(args)
        a == AttrOf(args)
        v == ValueOf(args)
    IN  CASE o \notin objects     -> "-ERR OBJECT NOT FOUND"
          [] ~IsAssignment(args)  -> "-ERR INVALID ASSIGNMENT"
          [] ~HasAttr(o, a)       -> "-ERR ATTR NOT FOUND"
          [] IsReadOnly(a)        -> "-ERR ATTR READ ONLY"
          [] ~SameType(v, a)      -> "-ERR ATTR UNKNOWN TYPE"
          [] IsString(v) /\ TooLong(Content(v)) -> "-ERR ATTR TOO LONG"
          [] OTHER                -> "+OK"

Value(args) == IF IsNumber(ValueOf(args)) THEN strtol(ValueOf(args)) ELSE Content(ValueOf(args))

Set ==
    /\ todo # <<>> /\ Command(Line) = "SET"
    /\ LET args  == Arguments(Line)
           reply == SetReply(args, Objects)
       IN  /\ params' = IF reply = "+OK" THEN [params EXCEPT ![AttrOf(args)] = Value(args)]
                                         ELSE params
           /\ Sent(Text(reply))
    /\ UNCHANGED <<lost, running, latched>>

Shown(a, table) == IF IsInt(a) THEN [int |-> table[a]] ELSE [str |-> table[a]]
List(o)         == IF o = "CHANNEL" THEN "+NAME, DELAY, " ELSE "+TYPE, "
Shows(args, objects) ==
    LET o == ObjectOf(args) IN o \in objects /\ AttrOf(args) # "" /\ HasAttr(o, AttrOf(args))

(* What GET says that is no value *)
GetText(args, objects) ==
    LET o == ObjectOf(args)
    IN  CASE o \notin objects   -> "-ERR OBJECT NOT FOUND"
          [] AttrOf(args) = ""  -> List(o)
          [] OTHER              -> "-ERR ATTR NOT FOUND"

GetReply(args, objects, table) ==
    IF Shows(args, objects) THEN Shown(AttrOf(args), table) ELSE Text(GetText(args, objects))

(* Every branch of netprot_cmd_get ends with out[outlen] = '\0'. *)
Get ==
    /\ todo # <<>> /\ Command(Line) = "GET"
    /\ Sent(GetReply(Arguments(Line), Objects, params))
    /\ UNCHANGED device

(* The walk takes CHANNEL's two attributes, and goes on in BOARD's at the  *)
(* index it has reached, behind the terminator of that table.  What it     *)
(* finds there ends it, or it writes on: then BOARD's name may be lost.    *)
Reset ==
    /\ todo # <<>> /\ Command(Line) = "RESET"
    /\ params' = [params EXCEPT !.NAME = Defaults.NAME, !.DELAY = Defaults.DELAY]
    /\ lost' \in {lost, TRUE}
    /\ Sent(Text("+OK"))
    /\ UNCHANGED <<running, latched>>

OldReply   == out            \* slip: out is not set, and the previous value prevails
StartReply == Empty

Start ==
    /\ todo # <<>> /\ Command(Line) = "START"
    /\ running' = TRUE /\ latched' = params.DELAY
    /\ Sent(StartReply)
    /\ UNCHANGED <<params, lost>>

Stop ==
    /\ todo # <<>> /\ Command(Line) = "STOP"
    /\ running' = FALSE
    /\ Sent(Text("+OK"))
    /\ UNCHANGED <<params, lost, latched>>

Ping ==
    /\ todo # <<>> /\ Command(Line) \in {"PING", "+OK"}
    /\ Sent(IF Command(Line) = "PING" THEN Text("+PONG") ELSE Empty)
    /\ UNCHANGED device

(* Not in the table: outstr keeps the last reply, and that is sent. *)
Unknown ==
    /\ todo # <<>> /\ ~Known(Line)
    /\ Sent(out)
    /\ UNCHANGED device

(* netprot_get_commands returns an error: send() failed, or recv() did.    *)
(* Main leaves the connection, with what the server sent on it, and stops  *)
(* the trigger; the parameters stay for the next server.                   *)
Disconnect ==
    /\ todo = <<>> /\ Len(log) < MaxLines
    /\ log' = Append(log, Hangup) /\ answers' = Append(answers, Closed)
    /\ stream' = <<>> /\ pending' = <<>> /\ failed' = FALSE
    /\ running' = FALSE
    /\ UNCHANGED <<todo, out, params, lost, latched, asked, cut>>

Next ==
    \/ ServerSends \/ Receive \/ Disconnect
    \/ Set \/ Get \/ Reset \/ Start \/ Stop \/ Ping \/ Unknown

Spec == Init /\ [][Next]_vars
-----------------------------------------------------------------------------
(* Properties *)

Start0 == [params |-> Defaults, running |-> FALSE, latched |-> 0]

Effect(s, e) ==
    IF e = Hangup THEN [s EXCEPT !.running = FALSE]
    ELSE CASE Meaning[e].do = "assign" -> [s EXCEPT !.params[Meaning[e].attr] = Meaning[e].to]
           [] Meaning[e].do = "reset"  -> [s EXCEPT !.params = Defaults]
           [] Meaning[e].do = "start"  -> [s EXCEPT !.running = TRUE, !.latched = s.params.DELAY]
           [] Meaning[e].do = "stop"   -> [s EXCEPT !.running = FALSE]
           [] OTHER                    -> s

(* What the first n of some lines and ends of connections lead to *)
After(es) == LET after[n \in 0 .. Len(es)] == IF n = 0 THEN Start0 ELSE Effect(after[n - 1], es[n])
             IN  after

Expected(s, e) ==
    IF Meaning[e].do # "show" THEN Text(Meaning[e].reply)
    ELSE IF IsInt(Meaning[e].attr) THEN [int |-> s.params[Meaning[e].attr]]
         ELSE [str |-> s.params[Meaning[e].attr]]

(* While no line is cut, the parameters and the trigger are as the lines   *)
(* handled so far, each with the meaning the server gave it, leave them:   *)
(* however they came in pieces, and whatever became of the replies         *)
(* (netprot_get_commands, netprot_cmd_set, _reset, _start, _stop).         *)
DoesWhatWasMeant ==
    ~cut => [params |-> params, running |-> running, latched |-> latched] = After(log)[Len(log)]

(* A reply the server gets whole is the one to the line it answers, with   *)
(* the value of that moment.  Lines that are in no table are left out:     *)
(* they get the reply before, or what the stack held (outstr).             *)
AnswersAreOwn ==
    ~cut /\ ~lost => \A i \in 1 .. Len(log) :
        log[i] # Hangup /\ Known(log[i]) => answers[i] \in {Expected(After(log)[i - 1], log[i]), Truncated}

(* Pieces may end anywhere, and what is left of a cut line is taken for a  *)
(* line.  Even so NAME is never a part of a name, for a string needs its   *)
(* closing quote; DELAY may become the beginning of a number someone sent, *)
(* and nothing else (parse_assignment).                                    *)
NothingInvented ==
    /\ \/ params.NAME = <<>>
       \/ \E l \in asked : Meaning[l].do = "assign" /\ Meaning[l].attr = "NAME" /\ Meaning[l].to = params.NAME
    /\ \/ params.DELAY = DefaultDelay
       \/ \E l \in asked : /\ Meaning[l].do = "assign" /\ Meaning[l].attr = "DELAY"
                          /\ \E k \in 4 .. Len(l) - 1 : params.DELAY = strtol(SubSeq(l, 5, k + 1))

(* No sequence of lines, whole or cut, changes the read-only TYPE, and the *)
(* name always leaves room for its terminator in strval.                   *)
ReadOnlyKept == params.TYPE = BoardType
NameFits     == strlen(params.NAME) + 1 <= StrValSize
TableIsSound == ReadOnlyKept /\ NameFits
=============================================================================
