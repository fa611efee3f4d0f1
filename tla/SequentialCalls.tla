--------------------------- MODULE SequentialCalls ---------------------------
(***************************************************************************)
(* The functions that keep no state between two calls, each called on any  *)
(* of its arguments: messageParse, the line breaks of base64, hexDump, and *)
(* the options of the tunnel.  Each is stated against what it promises,    *)
(* which is defined without the loop and the positions of the code.        *)
(***************************************************************************)
EXTENDS MessageParse, Base64Lines, HexDump, TunnelOptions, Filter, Integers, Sequences

CONSTANTS
  Chars,       \* the characters of a text
  Words,       \* the arguments of the options
  Messages,    \* the texts that are received
  Encoded,     \* the texts that base64_encode returned, which have no line break
  Broken,      \* the texts with line breaks that are to be decoded
  Distances,   \* the lengths of a line: the code has 64 (PEM) and 76 (MIME)
  Payloads,    \* what is printed
  OptionLists  \* the options that are given, one after the other

(* A line is not empty, a command has no colon, and no argument is NULL.    *)
ASSUME CallsAssumption ==
  /\ Messages \cup Broken \subseteq Seq(Chars) /\ Encoded \subseteq Seq(Chars \ {NL})
  /\ C_BIN \in Seq(Chars \ {":"})
  /\ Distances \subseteq Nat \ {0}
  /\ Payloads \subseteq Seq(0 .. 255) /\ Width \in Nat \ {0}
  /\ OptionLists \subseteq Seq(OptionsWith(Words)) /\ NoText \notin Words
  /\ UnsignedInt(DefaultSize) = DefaultSize

VARIABLES call, result      \* what is called with which arguments, and what it returned

callVars == <<call, result>>

NoResult == <<>>

Parses ==
  [f : {"messageParse"}, type : {"linux", "windows"}, rcv : BOOLEAN, send : BOOLEAN, message : Messages]
Breaks == [f : {"insert_linebreaks"}, text : Encoded, distance : Distances]
Removes == [f : {"remove_linebreaks"}, text : Broken]
Dumps == [f : {"hexDump"}, bytes : Payloads, stack : {StringEnd, 90}]
CommandLines == [f : {"set_options"}, given : OptionLists]
Settings ==
  [f : {"set_option"}, given : {l \in OptionLists : \A k \in DOMAIN l : l[k] # Informs}]

CallInit ==
  /\ call \in Parses \cup Breaks \cup Removes \cup Dumps \cup CommandLines \cup Settings
  /\ result = NoResult

Is(name) == call.f = name

Return(name, value) ==
  /\ Is(name) /\ result = NoResult
  /\ result' = <<value>>
  /\ UNCHANGED call

CallNext ==
  \/ Return("messageParse", messageParse(call.type, call.rcv, call.send, call.message))
  \/ Return("insert_linebreaks", insert_linebreaks(call.text, call.distance))
  \/ Return("remove_linebreaks", remove_linebreaks(call.text))
  \/ Return("hexDump", hexDump(call.bytes, [k \in 0 .. Width |-> call.stack]))
  \/ Return("set_option", CalledWith(call.given))
  \/ Return("set_options", set_options(call.given))

CallSpec == CallInit /\ [][CallNext]_callVars

Returned(name) == Is(name) /\ result # NoResult
value == result[1]

-----------------------------------------------------------------------------
NoColon(text) == \A p \in DOMAIN text : text[p] # ":"

(* The parts with a colon between each two of them. *)
WithColons(parts) ==
  LET joined[k \in 0 .. Len(parts)] ==
        IF k = 0 THEN <<>>
        ELSE IF k = 1 THEN parts[1]
        ELSE joined[k - 1] \o <<":">> \o parts[k]
  IN  joined[Len(parts)]

(* A text is split at its colons: the parts hold no colon and the colons    *)
(* with what is between them are the whole text, whether a part is empty,   *)
(* first or last; a text without a colon has no parts (split).             *)
PartsAreTheText ==
  Returned("messageParse") =>
    LET parts == split(call.message, ":")
    IN  IF NoColon(call.message) THEN parts = <<>>
        ELSE /\ \A k \in DOMAIN parts : NoColon(parts[k])
             /\ WithColons(parts) = call.message

(* A text is taken for a command only if it is one, one colon and the      *)
(* rest: JSON that is meant for onMessage never is, whatever it holds.      *)
(* And a callback is given a payload exactly when the command is BIN_DATA,  *)
(* and then all of it, but for the end of a JSON string and object that     *)
(* quotes it; base64 texts, which have no quotation mark, are never         *)
(* shortened (messageParse, onMessage).                                    *)
PayloadIsExact ==
  Returned("messageParse") =>
    LET IsText(command, rest) == call.message = command \o <<":">> \o rest /\ NoColon(rest)
        payload == SubSeq(call.message, Len(C_BIN) + 2, Len(call.message))
        quoted == \E n \in 1 .. Len(payload) : payload = SubSeq(payload, 1, n) \o <<"\"", "}">>
    IN  /\ value.returned # "false" =>
             \E command \in Commands \cup {C_BIN} :
               IsText(command, SubSeq(call.message, Len(command) + 2, Len(call.message)))
        /\ value.given # <<>> =>
             /\ IsText(C_BIN, payload)
             /\ value.given[2] = IF quoted THEN SubSeq(payload, 1, Len(payload) - 2) ELSE payload
        /\ IsText(C_BIN, payload) /\ call.rcv /\ value.returned # "nullcall" => value.given # <<>>

(* Every line but the last is full, and the last is neither empty nor       *)
(* longer: the character that is inserted must count for the position of    *)
(* the next one (insert_linebreaks).                                       *)
LinesAreFull ==
  Returned("insert_linebreaks") =>
    /\ \A p \in DOMAIN value : value[p] = NL <=> p % (call.distance + 1) = 0
    /\ value # <<>> => value[Len(value)] # NL

(* A text without its line breaks. *)
Joined(s) == Keep(s, Chars \ {NL})

(* What is decoded is the text without its line breaks, wherever they are   *)
(* and however many follow each other, so a PEM or MIME text is decoded as  *)
(* what was encoded (insert_linebreaks, decode).                           *)
BreaksVanish ==
  /\ Returned("remove_linebreaks") => value = Joined(call.text)
  /\ Returned("insert_linebreaks") => remove_linebreaks(value) = call.text

(* Each line shows its own bytes twice, in hex and as characters, with its  *)
(* columns aligned, and the lines are the payload: no character of an       *)
(* earlier, longer line is left behind in the buffer, none is printed       *)
(* before it was written, and at the end no byte is missing (hexDump).      *)
LinesShowPayload ==
  Returned("hexDump") =>
    /\ Len(value) = (Len(call.bytes) + Width - 1) \div Width
    /\ \A n \in DOMAIN value :
         LET last == IF Width * n < Len(call.bytes) THEN Width * n ELSE Len(call.bytes)
             bytes == SubSeq(call.bytes, (Width * (n - 1)) + 1, last)
         IN  value[n] = <<bytes \o [k \in 1 .. Width - Len(bytes) |-> Blank],
                          [k \in DOMAIN bytes |-> Printable(bytes[k])]>>

(* The argument given last for an option, or the default. *)
LastGiven(name, default) ==
  LET at == {k \in DOMAIN call.given : call.given[k][1] = name}
  IN  IF at = {} THEN default
      ELSE call.given[CHOOSE k \in at : \A other \in at : other <= k][2]

SizeAsked == UnsignedInt(LastGiven("buffer_size", DefaultSize))

(* What the calls of set_option leave in buffer_size: each call stores the  *)
(* default first, so a number counts only if it is that of the last call.  *)
SizeLeft ==
  LET last == call.given[Len(call.given)]
  IN  IF call.given = <<>> THEN 0
      ELSE IF last[1] = "buffer_size" THEN UnsignedInt(last[2])
      ELSE DefaultSize

(* Whatever the order and the repetitions of the options, the last argument *)
(* of each text option counts, and --fork makes the program stay alive, so  *)
(* that its parent accepts further clients (set_option, set_options).  The  *)
(* last buffer size counts on the command line; through set_option it does  *)
(* so only if no other option is set after it.  The stand-alone program     *)
(* starts only if it has been told both ports and the host.                *)
LastArgumentWins ==
  LET Agrees(opts) ==
        /\ \A o \in TextOptions : opts.texts[o] = LastGiven(o, NoText)
        /\ opts.settings = {call.given[k][1] : k \in DOMAIN call.given}
                             \cup {s \in {"stay_alive"} : LastGiven("fork", "no") # "no"}
  IN  /\ Returned("set_option") =>
           /\ Agrees(value)
           /\ value.buffer_size = SizeLeft
      /\ Returned("set_options") /\ value.exit # "exit(0)" =>
           /\ Agrees(value.options)
           /\ value.options.buffer_size = SizeAsked
           /\ value.exit = "no" <=> \A o \in Required : value.options.texts[o] # NoText

(* The buffer has the size that was asked for, as the help text says:       *)
(* "--buffer-size=BYTES  buffer size" (tcptunnel.cpp:655).                 *)
BufferSizeIsKept ==
  Returned("set_option") /\ "buffer_size" \in value.settings => value.buffer_size = SizeAsked
=============================================================================
