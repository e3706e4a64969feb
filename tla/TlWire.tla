------------------------------- MODULE TlWire -------------------------------
(***************************************************************************)
(* An RPC call end to end: a client layer writes the request, the server   *)
(* finds the operation for its code and reads the arguments, the operation *)
(* writes its reply and the client reads it with the type it expects.      *)
(* Besides, a value of any TL type is written and read (an update, or a    *)
(* value nested in another one), and so are the bytes of a string.         *)
(***************************************************************************)
EXTENDS TlStructs, TlReaders, TlWriters, TlCalls, TlRequests, TlOperations, FiniteSetsExt

CONSTANTS
  MaxElements,   \* bound: elements of a vector
  MaxFlags,      \* bound: flags set at a time, besides all of them
  Lengths        \* the lengths of the byte arrays

ASSUME WireAssumption ==
  /\ MaxElements \in Nat /\ MaxFlags \in Nat
  /\ Lengths \subseteq 0..(2^24 - 1)   \* a length has three bytes

VARIABLES
  phase,   \* "idle", "request", "running", "reply", "value", "bytes", "done", "refused"
  call,    \* the function the client waits for, or the type of the value
  wire,    \* the items in the stream
  sent,    \* what was written: the members with their values
  got      \* what was read

vars == <<phase, call, wire, sent, got>>

Bits == [b \in 0..31 |-> b]

\* The flags a layout depends on, and the sets of bits that are tried.
FlagSets(layout, flags) ==
  LET bits == {flags[f] : f \in UNION {item.need : item \in Range(layout)}}
  IN {bits} \union UNION {kSubset(k, bits) : k \in 0..MaxFlags}

Elements(layout, fields) ==
  IF \E item \in Range(layout) : IsVector(fields[item.field]) THEN 0..MaxElements ELSE {0}

Value(type, c, bits, n, table) ==
  <<Code(c)>> \o WriteFields(table[type][c], Structs[type].fields, Structs[type].flags, bits, n)

ValueContent(type, c, bits, n, table) ==
  {<<"tlType", <<Code(c)>>>>}
    \union Content(table[type][c], Structs[type].fields, Structs[type].flags, bits, n)

\* operator>> of a struct: the constructor decides what is read.
ReadValue(type, in) ==
  IF in = <<>> \/ in[1].kind # "TLValue" THEN [ok |-> FALSE, in |-> <<>>, got |-> {}]
  ELSE LET c == in[1].name
           r == ReadFields(IF c \in DOMAIN Readers[type] THEN Readers[type][c] ELSE Nothing,
                           Structs[type].fields, Structs[type].flags, Tail(in))
       IN [ok |-> r.ok /\ c \in Structs[type].types, in |-> r.in,
           got |-> {<<"tlType", <<Code(c)>>>>} \union r.got]

-----------------------------------------------------------------------------
Init == phase = "idle" /\ call = "" /\ wire = <<>> /\ sent = {} /\ got = {}

\* What a layer function writes: the code of the function and the arguments.
ArgumentTypes(f) ==
  [name \in {a.field : a \in Range(Calls[f].arguments)} |->
     (CHOOSE a \in Range(Calls[f].arguments) : a.field = name).type]

SendRequest ==
  /\ phase = "idle"
  /\ \E f \in DOMAIN Calls :
       \E bits \in FlagSets(Calls[f].arguments, Bits),
          n \in Elements(Calls[f].arguments, ArgumentTypes(f)) :
         /\ wire' = <<Code(f)>>
                      \o WriteFields(Calls[f].arguments, ArgumentTypes(f), Bits, bits, n)
         /\ sent' = Content(Calls[f].arguments, ArgumentTypes(f), Bits, bits, n)
         /\ call' = f
  /\ phase' = "request" /\ got' = {}

\* The first factory that knows the function; the operation reads the arguments,
\* and sends InputFetchError when that fails.
FactoryOf(f) == SelectInSeq(Factories, LAMBDA g : f \in DOMAIN Methods[g])

MethodOf(f) == Methods[Factories[FactoryOf(f)]][f]

ProcessRpcCall ==
  /\ phase = "request"
  /\ LET f == wire[1].name
     IN IF FactoryOf(f) = 0
          THEN phase' = "refused" /\ UNCHANGED <<wire, got>>
          ELSE LET reads == Processing[Factories[FactoryOf(f)]][MethodOf(f)]
                   r == ReadFields(Requests[reads].layout, Requests[reads].fields, Bits, Tail(wire))
               IN /\ phase' = IF r.ok THEN "running" ELSE "refused"
                  /\ wire' = r.in
                  /\ got' = r.got
  /\ UNCHANGED <<call, sent>>

\* The run method sends a value of its reply type.
SendRpcReply ==
  /\ phase = "running"
  /\ LET t == Replies[Factories[FactoryOf(call)]][MethodOf(call)]
     IN IF IsStruct(t)
          THEN \E c \in DOMAIN Writers[Head(t)] :
                 \E bits \in FlagSets(Writers[Head(t)][c], Structs[Head(t)].flags),
                    n \in Elements(Writers[Head(t)][c], Structs[Head(t)].fields) :
                   /\ wire' = Value(Head(t), c, bits, n, Writers)
                   /\ sent' = ValueContent(Head(t), c, bits, n, Writers)
          ELSE \E n \in 0..MaxElements :
                 /\ wire' = Encode(t, "result", {}, n)
                 /\ sent' = {<<"result", Take(wire', t).value>>}
  /\ phase' = "reply" /\ got' = {}
  /\ UNCHANGED call

\* PendingRpcResult::getResult: the reply is read as the type of the pending
\* operation and has to be valid.
ProcessReply ==
  /\ phase = "reply"
  /\ LET t == Calls[call].reply
         r == IF IsStruct(t) THEN ReadValue(Head(t), wire)
              ELSE LET v == Take(wire, t)
                   IN [ok |-> v.ok, in |-> v.rest, got |-> {<<"result", v.value>>}]
     IN /\ phase' = IF r.ok THEN "done" ELSE "refused"
        /\ wire' = r.in
        /\ got' = r.got
  /\ UNCHANGED <<call, sent>>

WriteAny ==
  /\ phase = "idle"
  /\ \E type \in DOMAIN Writers : \E c \in DOMAIN Writers[type] :
       \E bits \in FlagSets(Writers[type][c], Structs[type].flags),
          n \in Elements(Writers[type][c], Structs[type].fields) :
         /\ wire' = Value(type, c, bits, n, Writers)
         /\ sent' = ValueContent(type, c, bits, n, Writers)
         /\ call' = type
  /\ phase' = "value" /\ got' = {}

ReadAny ==
  /\ phase = "value"
  /\ LET r == ReadValue(call, wire)
     IN /\ phase' = IF r.ok THEN "done" ELSE "refused"
        /\ wire' = r.in
        /\ got' = r.got
  /\ UNCHANGED <<call, sent>>

\* A byte array of n bytes goes through the stream: wire stands for what the
\* stream is left with.
CopyBytes ==
  /\ phase = "idle"
  /\ \E n \in Lengths :
       LET r == ReadBytes(WriteBytes(n))
       IN /\ sent' = {n}
          /\ got' = {r.size}
          /\ phase' = IF r.ok THEN "done" ELSE "refused"
          /\ wire' = IF r.left = 0 THEN <<>> ELSE <<Item("QByteArray", "left", {r.left})>>
  /\ call' = "bytes"

Again ==
  /\ phase \in {"done", "refused"}
  /\ phase' = "idle" /\ call' = "" /\ wire' = <<>> /\ sent' = {} /\ got' = {}

Next == SendRequest \/ ProcessRpcCall \/ SendRpcReply \/ ProcessReply \/ WriteAny \/ ReadAny
          \/ CopyBytes \/ Again

Spec == Init /\ [][Next]_vars

-----------------------------------------------------------------------------
\* Every function a client layer can send reaches the server operation of that
\* function with exactly the arguments the caller passed (optional ones included,
\* whatever the flags), and nothing of the request is left unread: the layers,
\* the operation factories, TLFunctions.hpp and FunctionStreamOperators.cpp agree.
RequestUnderstood ==
  phase = "running" =>
    /\ got = sent
    /\ wire = <<>>
    /\ Processing[Factories[FactoryOf(call)]][MethodOf(call)] = call

\* What the server writes the client reads: a reply has the type the pending
\* operation of the call expects, every value comes back member by member
\* whatever its constructor, flags and vectors, byte arrays of every length
\* (the change to the long form at 254 included) come back whole, and the reader
\* stops exactly where the writer did, so that a value after it is read right.
ValueUnderstood ==
  /\ phase = "done" => got = sent /\ wire = <<>>
  /\ phase # "refused"
=============================================================================
