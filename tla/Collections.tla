---------------------------- MODULE Collections ----------------------------
(***************************************************************************)
(* What the containers of a Jik program promise: a string, a buffer and a  *)
(* vector are sequences, a dictionary is a function from its keys, each    *)
(* changed by the calls made on it and by nothing else, and gone with the  *)
(* region it was made in.  "asked" is the last call, "answer" what it      *)
(* returned.  A call outside the bounds ends the program, and so may one   *)
(* that asks for more memory than sizes can express.                       *)
(***************************************************************************)
EXTENDS Naturals, Sequences

CONSTANT Omitted

VARIABLES contents,  \* the value of every object alive
          home,      \* the region of every object alive
          depth,     \* the number of regions alive
          ended,     \* the program has died
          asked,
          answer

vars == <<contents, home, depth, ended, asked, answer>>

Empty == [k \in {} |-> 0]

\* A program may begin with any objects.
Init == ended = FALSE /\ asked = [op |-> "none"] /\ answer = <<"none">>

Done(value) == answer' = value /\ UNCHANGED ended

Unmoved == UNCHANGED <<home, depth>>

With(f, x, v) == [y \in DOMAIN f \union {x} |-> IF y = x THEN v ELSE f[y]]

Self == contents[asked'.on]

Other == contents[asked'.from]

\* The call changes the object it is made on to "value".
Becomes(value, result) ==
  /\ contents' = [contents EXCEPT ![asked'.on] = value]
  /\ Done(result)
  /\ Unmoved

\* The call makes an object of its own.
Makes(value, r) ==
  /\ asked'.on \notin DOMAIN contents
  /\ contents' = With(contents, asked'.on, value)
  /\ home' = With(home, asked'.on, r)
  /\ UNCHANGED depth
  /\ Done(<<"done">>)

Dies(why) ==
  /\ ended' = TRUE /\ answer' = <<why>>
  /\ contents' = <<>> /\ home' = <<>> /\ depth' = 0

EnterRegion ==
  /\ asked'.op = "enter"
  /\ depth' = depth + 1
  /\ Done(<<"done">>)
  /\ UNCHANGED <<contents, home>>

LeaveRegion ==
  /\ asked'.op = "leave"
  /\ LET kept == {o \in DOMAIN contents : home[o] # depth}
     IN  /\ contents' = [o \in kept |-> contents[o]]
         /\ home' = [o \in kept |-> home[o]]
  /\ depth' = depth - 1
  /\ Done(<<"done">>)

Make == asked'.op = "make" /\ Makes(asked'.value, asked'.in)

Push == asked'.op = "push" /\ Becomes(Append(Self, asked'.value), <<"done">>)

Extend == asked'.op = "extend" /\ Becomes(Self \o Other, <<"done">>)

AppendText == asked'.op = "append" /\ Becomes(Self \o asked'.value, <<"done">>)

Clear == asked'.op = "clear" /\ Becomes(<<>>, <<"done">>)

ClearDict == asked'.op = "clear_dict" /\ Becomes(Empty, <<"done">>)

Pop ==
  /\ asked'.op = "pop"
  /\ IF Self = <<>> THEN Dies("bounds")
     ELSE Becomes(SubSeq(Self, 1, Len(Self) - 1), <<"value", Self[Len(Self)]>>)

Set ==
  /\ asked'.op = "set"
  /\ IF asked'.at \in 0..(Len(Self) - 1)
     THEN Becomes([Self EXCEPT ![asked'.at + 1] = asked'.value], <<"done">>)
     ELSE Dies("bounds")

Get ==
  /\ asked'.op = "get"
  /\ IF asked'.at \in 0..(Len(Self) - 1)
     THEN Becomes(Self, <<"value", Self[asked'.at + 1]>>)
     ELSE Dies("bounds")

SetKey ==
  /\ asked'.op = "set_key"
  /\ Becomes(With(Self, asked'.key, asked'.value), <<"done">>)

GetKey ==
  /\ asked'.op = "get_key"
  /\ IF asked'.key \in DOMAIN Self
     THEN Becomes(Self, <<"value", Self[asked'.key]>>)
     ELSE IF asked'.unwrapped THEN Dies("bounds") ELSE Becomes(Self, <<"none">>)

Join == asked'.op = "concat" /\ Makes(Other \o contents[asked'.and], asked'.in)

Slice ==
  /\ asked'.op = "slice"
  /\ LET start == IF asked'.start = Omitted THEN 0 ELSE asked'.start
         stop  == IF asked'.stop = Omitted THEN Len(Other) ELSE asked'.stop
     IN  IF 0 <= start /\ start <= stop /\ stop <= Len(Other)
         THEN Makes(SubSeq(Other, start + 1, stop), home[asked'.from])
         ELSE Dies("bounds")

\* Moving a loop on changes no object.
Walk == asked'.op = "walk" /\ Done(<<"done">>) /\ Unmoved /\ UNCHANGED contents

Exhausted == Dies("overflow")

Next ==
  /\ ~ended
  /\ \/ EnterRegion \/ LeaveRegion \/ Make \/ Join \/ Slice \/ Walk
     \/ Push \/ Extend \/ AppendText \/ Clear \/ ClearDict \/ Pop \/ Set \/ Get
     \/ SetKey \/ GetKey \/ Exhausted

Spec == Init /\ [][Next]_vars
=============================================================================
