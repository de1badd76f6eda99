------------------------------- MODULE Audio -------------------------------
(***************************************************************************)
(* Playing a song (audio.c, wav.c, ac97.c).  The card plays two halves of a *)
(* buffer in turn, for ever; on each timer tick task_refill_sound_buffer   *)
(* asks the card where it is, and fills the half that has been played.     *)
(*                                                                         *)
(* Lengths and places are counted in frames.  The converter counts what is *)
(* left of the source in bytes.  The timer's callbacks run with interrupts *)
(* off, but the card plays on between two reads of its registers; wav_play *)
(* and audio_stop run in the program, which is preempted and killed.       *)
(*                                                                         *)
(* When a song is started while another is not over, or the card changes   *)
(* entries within one reading of its position, the count goes astray: what *)
(* is heard is not followed any further, and any tick may find the song    *)
(* over.  Without a card nothing is heard, and audio_stop does nothing.    *)
(***************************************************************************)
EXTENDS Integers, Sequences, FiniteSetsExt

CONSTANTS
    Players,    \* the programs that play songs
    Lengths,    \* lengths of songs
    R,          \* frames in half of the buffer, sample_rate
    F,          \* bytes in a frame of the source
    Entry,      \* frames in an entry of the card's list, 0x1000
    Word,       \* unsigned numbers wrap at Word, 2^32
    Lag,        \* frames the card plays from one tick to the next, at most
    TimerSlots  \* entries of the timer's table that others leave, 255 at most

\* What is assumed of the constants: see AudioAssumption in module Devices.

VARIABLES
    place,     \* place[p]: how far player p has come
    selected,  \* there is a card, selected_dev # -1
    source,    \* whose song source_data_pointer and playing_audio name
    total,     \* size_of_full_pcm_output, which is the length of the song
    next,      \* source_data_pointer: the frame that is converted next
    left,      \* source_data_length
    content,   \* pcm_data, the two halves in turn
    playing,   \* actually_playing_buffer
    filled,    \* last_filled_buffer
    finished,  \* played_bytes_by_finished_buffers
    attached,  \* how often task_refill_sound_buffer is attached to the timer
    on,        \* the card plays
    pos,       \* the next frame of the buffer the card plays
    late,      \* frames played since the last tick
    heard,     \* the frames played since the card was started
    astray,    \* history: two songs at once, or a position was torn
    mingled    \* history: the song was described within another's wav_play

whose == <<selected, source, mingled>>
song == <<total, next, left, playing, filled, finished, content>>
card == <<pos, late, heard>>
vars == <<place, whose, song, card, attached, on, astray>>

Half == {0, 1}
Place == 0 .. 2 * R - 1
Silence == -1

TypeOK ==
    /\ place \in [Players -> {"idle", "set", "loaded", "started", "plays", "detached", "killed"}]
    /\ selected \in BOOLEAN /\ source \subseteq Players /\ mingled \in BOOLEAN
    /\ total \in Lengths \cup {0} /\ next \in Nat /\ left \in 0 .. Word - 1
    /\ content \in [Place -> Int]
    /\ playing \in Half /\ filled \in Half /\ finished \in Nat
    /\ attached \in 0 .. TimerSlots
    /\ on \in BOOLEAN /\ pos \in Place /\ late \in 0 .. Lag
    /\ heard \in Seq(Int)
    /\ astray \in BOOLEAN

Quiet == [i \in Place |-> Silence]

Init ==
    /\ place = [p \in Players |-> "idle"]
    /\ selected \in BOOLEAN /\ source = {} /\ mingled = FALSE
    /\ total = 0 /\ next = 0 /\ left = 0
    /\ playing = 0 /\ filled = 0 /\ finished = 0
    /\ content = Quiet /\ attached = 0
    /\ on = FALSE /\ pos = 0 /\ late = 0 /\ heard = <<>>
    /\ astray = FALSE
-----------------------------------------------------------------------------
(* wav_refill_buffer.                                                      *)

\* How many frames are converted.  What is left, in bytes, is compared with
\* the number of frames of a full half.
Count(n, l) == IF l = 0 THEN 0 ELSE IF l < R THEN l \div F ELSE R

\* Half h with frames from n on; what is not filled keeps its old content.
FillM(h, n, l) ==  \* mutant: a half is filled from its end
    [i \in Place |-> IF i \div R = h /\ R - 1 - (i % R) < Count(n, l)
                       THEN n + R - 1 - (i % R) ELSE content[i]]
Fill(h, n, l) ==
    [i \in Place |-> IF i \div R = h /\ i % R < Count(n, l) THEN n + (i % R) ELSE content[i]]
Advance(n, l) ==
    /\ next' = n + Count(n, l)
    /\ left' = (l + Word - Count(n, l) * F) % Word
-----------------------------------------------------------------------------
(* The card.                                                               *)

At(n) == (pos + n) % (2 * R)
\* It plays the next n frames, from what the buffer holds now.
Plays(n) ==
    /\ pos' = At(n)
    /\ heard' = heard \o [i \in 1 .. n |-> content[At(i - 1)]]

Dac ==
    /\ on /\ ~astray /\ late < Lag
    /\ Plays(1)
    /\ late' = late + 1
    /\ UNCHANGED <<place, whose, song, attached, on, astray>>

\* ac97_get_actual_stream_position reads the entry that is played, while the
\* card is at a, and then what is left of the entry, while the card is at b.
EntryOf(a) == a \div Entry
Size(e) == Min({Entry, 2 * R - e * Entry})
Position(a, b) == EntryOf(a) * Entry + Size(EntryOf(a)) - (Size(EntryOf(b)) - (b % Entry))
-----------------------------------------------------------------------------
(* wav_play and audio_play_refilling, in player p.                         *)

Step(p, from, to) == place[p] = from /\ place' = [place EXCEPT ![p] = to]

\* The description of the song is set, and the buffer cleared.  There is one
\* description: the last player to get here has it name its own song.
WithinAnother(p) == \E q \in Players \ {p} : place[q] \in {"set", "loaded", "started"}
Alone(p) == ~astray /\ attached = 0 /\ ~on /\ \A q \in Players \ {p} : place[q] \in {"idle", "killed"}
SetInfo(p) ==
    /\ Step(p, "idle", "set")
    /\ source' = {p} /\ mingled' = WithinAnother(p)
    /\ astray' = ~Alone(p)
    /\ \E n \in IF Alone(p) THEN Lengths ELSE {0} : total' = n /\ left' = n * F
    /\ next' = 0 /\ playing' = 0 /\ filled' = 0 /\ finished' = 0
    /\ content' = Quiet
    /\ pos' = 0 /\ late' = 0 /\ heard' = <<>>
    /\ UNCHANGED <<selected, attached, on>>

\* The first half is filled.
FirstFill(p) ==
    /\ Step(p, "set", "loaded")
    /\ \/ /\ ~astray
          /\ content' = Fill(0, next, left)
          /\ Advance(next, left)
       \/ astray /\ UNCHANGED <<content, next, left>>
    /\ UNCHANGED <<whose, total, playing, filled, finished, card, attached, on, astray>>

\* ac97_play_pcm_data_in_loop, if there is a card
StartCard(p) ==
    /\ Step(p, "loaded", "started")
    /\ on' = selected
    /\ pos' = 0 /\ late' = 0 /\ heard' = <<>>
    /\ UNCHANGED <<whose, song, attached, astray>>

\* timer_attach, which gives up if the table is full
Attach(p) ==
    /\ Step(p, "started", "plays")
    /\ attached' = IF attached < TimerSlots THEN attached + 1 ELSE attached
    /\ UNCHANGED <<whose, song, card, on, astray>>
-----------------------------------------------------------------------------
(* audio_stop, in player p, which returns the song's memory afterwards.    *)

Detached1M(n) == IF on THEN 0 ELSE n  \* mutant: nothing is to be done if the card is off
Detached2M(n) == n  \* mutant: another function is looked for
\* timer_detach removes each of them; without a card audio_stop returns before.
Detached(n) == IF selected THEN 0 ELSE n
Detach(p) ==
    /\ Step(p, "plays", "detached")
    /\ attached' = Detached(attached)
    /\ UNCHANGED <<whose, song, card, on, astray>>

StopCard(p) ==
    /\ Step(p, "detached", "idle")
    /\ on' = FALSE
    /\ astray' = (astray /\ \E q \in Players \ {p} : place[q] # "idle")
    /\ UNCHANGED <<whose, song, card, attached>>

\* A program that is stopped anywhere keeps the memory of its song.
Kill(p) ==
    /\ place[p] # "idle"
    /\ place' = [place EXCEPT ![p] = "killed"]
    /\ UNCHANGED <<whose, song, card, attached, on, astray>>
-----------------------------------------------------------------------------
(* task_refill_sound_buffer.                                               *)

\* The card has left the half that is taken to be played.
LeftHalf(at) == (playing = 0) # (at < R)
FinishedM(at) == finished + IF LeftHalf(at) /\ playing = 0 THEN R ELSE 0  \* mutant: second half forgotten
Finished(at) == finished + IF LeftHalf(at) THEN R ELSE 0
Playing(at) == IF LeftHalf(at) THEN 1 - playing ELSE playing
Played(done, half, at) == done + at - IF half = 1 THEN R ELSE 0

\* The half is chosen by one reading of the position, and what was played is
\* counted by another.  The card moves on by a frame between at most one pair
\* of the four register reads.
Tick ==
    /\ attached > 0 /\ ~astray
    /\ \E a \in 0 .. 1 : \E b \in a .. 1 : \E c \in b .. 1 : \E d \in c .. 1 :
         LET moves == IF on THEN d ELSE 0
             first == IF on THEN Position(At(a), At(b)) ELSE Position(pos, pos)
             second == IF on THEN Position(At(c), At(d)) ELSE Position(pos, pos)
             over == Played(Finished(first), Playing(first), second) >= total
         IN  /\ EntryOf(At(a)) = EntryOf(At(b)) /\ EntryOf(At(c)) = EntryOf(At(d))
             /\ Plays(moves)
             /\ finished' = Finished(first)
             /\ playing' = Playing(first)
             /\ attached' = IF over THEN Detached(attached) ELSE attached
             /\ on' = (on /\ ~over)
             /\ \/ /\ Playing(first) = filled
                   /\ content' = Fill(1 - filled, next, left)
                   /\ Advance(next, left)
                   /\ filled' = 1 - filled
                \/ /\ Playing(first) # filled
                   /\ UNCHANGED <<content, next, left, filled>>
    /\ late' = 0
    /\ UNCHANGED <<place, whose, total, astray>>

\* The card enters another entry between the two registers of one reading.
TornTick ==
    /\ attached > 0 /\ ~astray /\ on
    /\ EntryOf(At(0)) # EntryOf(At(1))
    /\ astray' = TRUE
    /\ UNCHANGED <<place, whose, song, card, attached, on>>

\* A tick finds the song over, by whatever description there is.
AstrayTick ==
    /\ attached > 0 /\ astray
    /\ attached' = Detached(attached)
    /\ on' = FALSE
    /\ UNCHANGED <<place, whose, song, card, astray>>

Next ==
    \/ Dac \/ Tick \/ TornTick \/ AstrayTick
    \/ \E p \in Players :
         SetInfo(p) \/ FirstFill(p) \/ StartCard(p) \/ Attach(p) \/ Detach(p) \/ StopCard(p) \/ Kill(p)

\* The card and the timer go on of their own; nobody makes a program play or
\* stop.
Spec == Init /\ [][Next]_vars /\ WF_vars(Dac) /\ WF_vars(Tick)
-----------------------------------------------------------------------------
(* Properties.                                                             *)

\* Of one song at a time, the song is heard in order from its first frame,
\* without gap or repetition, whatever the card does between two register
\* reads, unless it changes entries between the two halves of one reading.
InOrder ==
    ~astray =>
      \A i \in 1 .. Min({Len(heard), total}) : heard[i] = i - 1

\* ... and the timer stops it at its end: no tick stops it before it has been
\* heard whole, and the second tick after that at the latest does.  (A tick that
\* reads the position around the end of the buffer counts too little.)
StopsAtEnd ==
    [][Tick => /\ attached' = 0 => Len(heard') >= total
               /\ Len(heard') < total + 2 * (Lag + 1)]_vars

\* What is converted is there: the song that the description names belongs to
\* a player that has not returned it, whenever the timer or a wav_play that
\* has come to its first fill can read it, even if several players start,
\* stop and are killed at once (a player that is killed keeps its memory).
\* It is not so if the song was described within another's wav_play: p1 is
\* preempted in front of its first fill, p2 starts a song, stops it and returns
\* it, and p1 goes on with the description of p2's song.  Nor is it without a
\* card: audio_stop leaves the timer's function attached, and the player
\* returns its song all the same.
CanBeRead == attached > 0 \/ \E p \in Players : place[p] = "set"
SourceHeld ==
    selected /\ ~mingled /\ CanBeRead => \A p \in source : place[p] # "idle"

\* With a card, a song that plays comes to its end, and the timer is rid of it,
\* even if its player has been killed.
Ends == selected /\ attached > 0 ~> attached = 0 \/ astray
=============================================================================
