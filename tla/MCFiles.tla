------------------------------ MODULE MCFiles ------------------------------
(***************************************************************************)
(* Module Files in two settings: programs that keep their descriptors to   *)
(* themselves and meet every other hazard, and, in smaller tables, ones    *)
(* that share them.                                                        *)
(***************************************************************************)
EXTENDS Files

CONSTANTS SharedFiles, SharedFds, SharedHazards  \* those of the second setting
VARIABLE sharing  \* whether this is the second setting

ASSUME SharedAssumption ==
    /\ SharedFiles \in Nat \ {0} /\ SharedFds \in Nat \ {0, 1}
    /\ SharedHazards \subseteq HazardKinds

S == INSTANCE Files WITH NFiles <- SharedFiles, NFds <- SharedFds, Hazards <- SharedHazards

MCInit == sharing \in BOOLEAN /\ IF sharing THEN S!Init ELSE Init
MCNext == UNCHANGED sharing /\ IF sharing THEN S!Next ELSE Next
MCSpec == MCInit /\ [][MCNext]_<<vars, sharing>>
-----------------------------------------------------------------------------
(* The properties of Files, each in the setting it is about.               *)

\* The variables have their types.
FilesTypeOK == IF sharing THEN S!TypeOK ELSE TypeOK

\* As long as no program shares, an entry of the file table has one descriptor;
\* and even when descriptors are shared, a free entry holds nothing, and an end
\* of a pipe that is open has an entry, and only one.
TableIsSound == IF sharing THEN S!FreeIsBlank /\ S!PipeEnds ELSE Private

\* As long as no program shares, a descriptor keeps naming the file or pipe end
\* it was given for, and takes it with it when it goes away.
FollowsDescriptor == [][sharing \/ (KeepsFile /\ GivesBack)]_<<vars, sharing>>
=============================================================================
