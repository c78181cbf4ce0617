------------------------------ MODULE LiveStream ----------------------------
(***************************************************************************)
(* What a live session promises to its client and to its recording: both   *)
(* begin with a picture taken after PLAY that can be decoded by itself,    *)
(* every later picture directly follows the picture it refers to, and the  *)
(* recording holds what was sent and at most one picture more.             *)
(***************************************************************************)
EXTENDS Integers, Sequences

CONSTANT Gop            \* pictures from one IDR to the next

VARIABLES
    since,              \* the newest frame the camera had taken at PLAY
    recording,          \* is the session recorded
    sent, recorded      \* the pictures of the session so far

streamVars == <<since, recording, sent, recorded>>

(* A picture: the camera's number of its frame, the encoder's number of    *)
(* the picture, and whether the parameter sets come with it.               *)
Decodable(picture) == picture.n % Gop = 0 /\ picture.params

Follows(picture, stream) ==
    /\ picture.seq > since
    /\ stream = <<>> => Decodable(picture)
    /\ stream # <<>> => LET last == stream[Len(stream)]
                        IN  picture.seq > last.seq /\ picture.n = last.n + 1

Extends(new, old) ==
    /\ Len(new) = Len(old) + 1
    /\ \A i \in 1..Len(old) : new[i] = old[i]
    /\ Follows(new[Len(new)], old)

StreamInit == since \in Nat /\ recording \in BOOLEAN /\ sent = <<>> /\ recorded = <<>>

Begin ==
    /\ since' \in Nat /\ since' >= since
    /\ sent' = <<>> /\ recorded' = <<>>
    /\ UNCHANGED recording

RecordPicture ==
    /\ recording /\ Len(recorded) = Len(sent)
    /\ Extends(recorded', recorded)
    /\ UNCHANGED <<since, recording, sent>>

SendPicture ==
    /\ Extends(sent', sent)
    /\ recording => /\ Len(recorded) = Len(sent')
                    /\ recorded[Len(recorded)].n = sent'[Len(sent')].n
    /\ UNCHANGED <<since, recording, recorded>>

StreamNext == Begin \/ RecordPicture \/ SendPicture

StreamSpec == StreamInit /\ [][StreamNext]_streamVars
=============================================================================
