---------------------------- MODULE TunnelOptions ----------------------------
(***************************************************************************)
(* The options of the tunnel (tcptunnel.cpp): set_options reads those of   *)
(* the stand-alone program's command line, set_option is called by other   *)
(* programs, such as server.cpp, once for each option.                     *)
(*                                                                         *)
(* An option is a pair of its name and its argument; that of --buffer-size *)
(* is the number atoi makes of it: 0 for any other word.  settings is the  *)
(* set of the bits that are 1.                                             *)
(***************************************************************************)
LOCAL INSTANCE Integers
LOCAL INSTANCE Sequences

CONSTANT UIntBits      \* the width of an unsigned int

TextOptions == {"local_port", "remote_port", "remote_host", "bind_address", "client_address"}
Switches == {"fork", "log", "stay_alive"}
Required == {"local_port", "remote_port", "remote_host"}

NoText == "NULL"
DefaultSize == 4096
UnsignedInt(n) == n % (2 ^ UIntBits)

(* --help, --version and an option getopt_long does not know end the        *)
(* program at once.                                                        *)
Informs == <<"help", NoText>>

(* The options that can be given: each argument of a text option is a word, *)
(* that of --buffer-size a number.                                         *)
OptionsWith(Words) ==
  (TextOptions \X Words) \cup ({"buffer_size"} \X Int) \cup (Switches \X {NoText}) \cup {Informs}

(* What is set before the first option. *)
NoOptions ==
  [texts |-> [o \in TextOptions |-> NoText], buffer_size |-> 0, settings |-> {}]

\* variant: --fork serves one client only
Bits_ForkAlone(name) == {name}

Bits(name) == IF name = "fork" THEN {"fork", "stay_alive"} ELSE {name}

(* The switch statement, which both functions have. *)
ReadOption(opts, opt) ==
  LET name == opt[1]
      argument == opt[2]
  IN  [ texts       |-> IF name \in TextOptions THEN [opts.texts EXCEPT ![name] = argument] ELSE opts.texts,
        buffer_size |-> IF name = "buffer_size" THEN UnsignedInt(argument) ELSE opts.buffer_size,
        settings    |-> opts.settings \cup Bits(name) ]

(* set_option, whose default is for the Linux build. *)
set_option(opts, opt) == ReadOption([opts EXCEPT !.buffer_size = DefaultSize], opt)

CalledWith(calls) ==
  LET after[k \in 0 .. Len(calls)] ==
        IF k = 0 THEN NoOptions ELSE set_option(after[k - 1], calls[k])
  IN  after[Len(calls)]

Missing(opts) == ~(Required \subseteq opts.settings)

ReadAll(words) ==
  LET after[k \in 0 .. Len(words)] ==
        IF k = 0 THEN [NoOptions EXCEPT !.buffer_size = DefaultSize]
        ELSE ReadOption(after[k - 1], words[k])
  IN  after[Len(words)]

set_options(words) ==
  LET opts == ReadAll(words)
  IN  IF Informs \in {words[k] : k \in DOMAIN words} THEN [exit |-> "exit(0)", options |-> NoOptions]
      ELSE IF Missing(opts) THEN [exit |-> "exit(1)", options |-> opts]
      ELSE [exit |-> "no", options |-> opts]
=============================================================================
