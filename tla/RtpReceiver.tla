------------------------------ MODULE RtpReceiver ----------------------------
(***************************************************************************)
(* The RTP stream of RtpStream on its way: UDP, which may lose, repeat and *)
(* reorder the packets, and a receiver that puts the pictures together     *)
(* again from what the packets say of themselves.                          *)
(*                                                                         *)
(* Both are external.  The receiver does what the packets are made for:    *)
(* it orders them by their 16-bit numbers, sends late and repeated ones    *)
(* away, waits for a missing one as long as it likes, and shows a picture  *)
(* when it has seen it from its beginning to its marker without a gap.  It *)
(* is not told the first number (the answer to PLAY has no RTP-Info) and   *)
(* takes the oldest packet it has when it begins.                          *)
(***************************************************************************)
EXTENDS RtpStream, FiniteSets

CONSTANT Delay      \* a packet comes, or is given up, before Delay more

(* Otherwise the number of a late packet could be that of an early one.    *)
ASSUME DelayAssumption == Delay \in Nat \ {0} /\ 2 * Delay <= SeqModulus

VARIABLES
    buffer,         \* the packets that came and are not yet used
    begun,          \* has the receiver begun
    expected,       \* the sequence number it needs next
    position,       \* how much of the wire is behind it
    missed,         \* positions of the packets it did without
    whole,          \* no gap since the picture began
    units, open,    \* its complete units; the fragments of the next one
    clock,          \* the time stamp of the newest packet used
    shown           \* the pictures shown, in order

receiver == <<buffer, begun, expected, position, missed>>
assembly == <<whole, units, open, clock, shown>>
vars     == <<streamVars, receiver, assembly>>

NoUnit == [type |-> "none", parts |-> <<>>]

Init ==
    /\ StreamInit
    /\ buffer = {} /\ begun = FALSE /\ expected = 0
    /\ position = 0 /\ missed = {}
    /\ whole = FALSE /\ units = <<>> /\ open = NoUnit /\ clock = -1
    /\ shown = <<>>

-----------------------------------------------------------------------------
(* The sender, no further ahead of the receiver than the delay allows.     *)
Send ==
    /\ StreamNext
    /\ Len(wire') <= position + Delay
    /\ UNCHANGED <<receiver, assembly>>

Ahead(number, of) == (number - of) % SeqModulus < SeqModulus \div 2

(* A packet comes, in any order, once, again, or never; before the receiver*)
(* begins it keeps whatever comes.                                         *)
UnderWay == {i \in 1 .. Len(wire) : i + Delay > Len(wire)}

Arrive ==
    /\ \E i \in UnderWay :
        /\ ~begun => i > position
        /\ ~begun \/ Ahead(wire[i].seq, expected)
        /\ buffer' = buffer \cup {wire[i]}
    /\ UNCHANGED <<streamVars, begun, expected, position, missed, assembly>>

Begin ==
    /\ ~begun /\ begun' = TRUE
    /\ \E i \in 1 .. Len(wire) :
        /\ wire[i] \in buffer
        /\ \A p \in buffer : Ahead(p.seq, wire[i].seq)
        /\ expected' = wire[i].seq
        /\ position' = i - 1 /\ missed' = 1 .. i - 1
    /\ UNCHANGED <<streamVars, buffer, assembly>>

-----------------------------------------------------------------------------
(* A picture begins behind a marker, or with a sequence parameter set.     *)
Opens(p)   == p.type = "sps" /\ p.start
Empty      == units = <<>> /\ open = NoUnit

(* The packet goes on with the picture that is being put together.         *)
Fits(p) ==
    /\ whole
    /\ Empty <=> p.timestamp # clock
    /\ p.start <=> open = NoUnit
    /\ ~p.start => p.fu /\ p.type = open.type

Joined(p) ==
    [type |-> p.type,
     parts |-> (IF p.start THEN <<>> ELSE open.parts) \o <<p.data>>]

Restart(good) ==
    whole' = good /\ units' = <<>> /\ open' = NoUnit

Assemble(p) ==
    LET before == IF Opens(p) /\ ~Fits(p) THEN <<>> ELSE units
    IN  /\ clock' = p.timestamp
        /\ \/ ~Fits(p) /\ ~Opens(p) /\ Restart(p.marker) /\ UNCHANGED shown
           \/ /\ Fits(p) \/ Opens(p)
              /\ \/ /\ ~p.end /\ open' = Joined(p) /\ units' = before
                    /\ whole' = TRUE /\ UNCHANGED shown
                 \/ /\ p.end /\ ~p.marker
                    /\ open' = NoUnit /\ units' = Append(before, Joined(p))
                    /\ whole' = TRUE /\ UNCHANGED shown
                 \/ /\ p.end /\ p.marker /\ Restart(TRUE)
                    /\ shown' = Append(shown, Append(before, Joined(p)))

Use ==
    /\ begun
    /\ \E p \in buffer :
        /\ p.seq = expected /\ buffer' = buffer \ {p}
        /\ Assemble(p)
    /\ expected' = (expected + 1) % SeqModulus /\ position' = position + 1
    /\ UNCHANGED <<streamVars, begun, missed>>

(* The packet it needs is lost, or too late; or it was lost before the     *)
(* receiver had any.                                                       *)
GiveUp ==
    /\ position < Len(wire)
    /\ \/ /\ begun /\ \A p \in buffer : p.seq # expected
          /\ expected' = (expected + 1) % SeqModulus
       \/ /\ ~begun /\ buffer = {} /\ UNCHANGED expected
    /\ position' = position + 1
    /\ missed' = missed \cup {position'}
    /\ Restart(FALSE)
    /\ UNCHANGED <<streamVars, buffer, begun, clock, shown>>

Next == Send \/ Arrive \/ Begin \/ Use \/ GiveUp
Spec == Init /\ [][Next]_vars

-----------------------------------------------------------------------------
(* A unit put together is the k-th unit of picture n, byte for byte.       *)
Spells(unit, n, k) ==
    LET parts == unit.parts
    IN  /\ unit.type = pictures[n][k].type
        /\ parts[1].from = 1
        /\ parts[Len(parts)].to = pictures[n][k].size - 1
        /\ \A i \in 1 .. Len(parts) : parts[i].picture = n /\ parts[i].nal = k
        /\ \A i \in 1 .. Len(parts) - 1 : parts[i + 1].from = parts[i].to + 1

NumberOf(picture) == picture[1].parts[1].picture

(* Every picture shown is one that was sent, with all its units and all    *)
(* their bytes, and none is shown twice or before an earlier one, however  *)
(* UDP treats the packets and though their numbers wrap around.            *)
ShownWhole ==
    /\ \A i \in 1 .. Len(shown) :
        LET n == NumberOf(shown[i])
        IN  /\ Len(shown[i]) = Len(pictures[n])
            /\ \A k \in 1 .. Len(shown[i]) : Spells(shown[i][k], n, k)
    /\ \A i \in 1 .. Len(shown) - 1 : NumberOf(shown[i]) < NumberOf(shown[i + 1])

(* A missing packet costs its own picture, and the next one if it was the  *)
(* packet that ends a picture and the next one has no parameter sets, and  *)
(* nothing else: all other pictures behind the receiver are shown.         *)
PacketsOf(n) == {i \in 1 .. Len(wire) : wire[i].data.picture = n}

Passed(n) == \E i \in PacketsOf(n) : wire[i].marker /\ i <= position

Unharmed(n) ==
    /\ Passed(n)
    /\ PacketsOf(n) \cap missed = {}
    /\ \/ pictures[n][1].type = "sps"
       \/ PacketsOf(n - 1) # {} /\ \A i \in PacketsOf(n - 1) \cap missed : ~wire[i].marker

LossContained ==
    {NumberOf(shown[i]) : i \in 1 .. Len(shown)}
        = {n \in 1 .. Len(pictures) : Unharmed(n)}
=============================================================================
