-------------------------------- MODULE Media --------------------------------
(***************************************************************************)
(* POST /uploads: Save validates and encodes a picture in memory, then     *)
(* creates a file under a random name, writes and closes it, and hands out *)
(* its URL; on a failure it removes the file.  Each call to the file       *)
(* system is an action, so that uploads overlap and the process may die    *)
(* between any two of them.  Names are drawn from a small set, so that the *)
(* same one may come up twice.  Read serves whatever the file holds.       *)
(***************************************************************************)
EXTENDS Naturals

CONSTANTS
    Uploads,      \* concurrent uploads
    Pictures,
    Names,
    MaxErrors     \* bound: failed calls

ASSUME MediaAssumption == MaxErrors \in Nat

VARIABLES
    files,        \* [Names -> the file of this name, or NoFile]
    upload,       \* [Uploads -> the Save in progress]
    handed,       \* the answers so far: <<name, picture>>
    errors

mediaVars == <<files, upload, handed, errors>>

NoFile == [picture |-> "none", whole |-> FALSE]
NoUpload == [pc |-> "idle"]

\* A file, even an empty one, is not the absence of a file.
ASSUME PictureAssumption == NoFile.picture \notin Pictures

MediaTypeOK ==
    /\ files \in [Names -> {NoFile} \cup
                    [picture : Pictures, whole : BOOLEAN]]
    /\ upload \in [Uploads -> {NoUpload} \cup
                     [pc : {"create"}, picture : Pictures] \cup
                     [pc : {"write", "close", "remove"}, picture : Pictures,
                      name : Names, failed : BOOLEAN]]
    /\ handed \subseteq Names \X Pictures
    /\ errors \in Nat

MediaInit ==
    /\ files = [n \in Names |-> NoFile]
    /\ upload = [s \in Uploads |-> NoUpload]
    /\ handed = {}
    /\ errors = 0

IOError == errors < MaxErrors /\ errors' = errors + 1

-----------------------------------------------------------------------------
\* A picture that passes the checks; the others are refused without a trace.
SaveBegin(s, p) ==
    /\ upload[s] = NoUpload
    /\ upload' = [upload EXCEPT ![s] = [pc |-> "create", picture |-> p]]
    /\ UNCHANGED <<files, handed, errors>>

\* Mutant: the file is opened without O_EXCL.
NotExclusive(n) == TRUE

\* O_EXCL.
Free(n) == files[n] = NoFile

SaveCreate(s, n) ==
    LET p == upload[s].picture IN
    /\ upload[s].pc = "create"
    /\ \/ /\ Free(n)
          /\ files' = [files EXCEPT ![n] = [picture |-> p, whole |-> FALSE]]
          /\ upload' = [upload EXCEPT ![s] =
                [pc |-> "write", picture |-> p, name |-> n, failed |-> FALSE]]
          /\ UNCHANGED errors
       \/ /\ (~Free(n) /\ UNCHANGED errors) \/ IOError
          /\ upload' = [upload EXCEPT ![s] = NoUpload]
          /\ UNCHANGED files
    /\ UNCHANGED handed

SaveWrite(s) ==
    /\ upload[s].pc = "write"
    /\ \/ /\ files' = [files EXCEPT ![upload[s].name] =
                         [picture |-> upload[s].picture, whole |-> TRUE]]
          /\ upload' = [upload EXCEPT ![s].pc = "close"]
          /\ UNCHANGED errors
       \/ /\ IOError
          /\ upload' = [upload EXCEPT ![s].pc = "close", ![s].failed = TRUE]
          /\ UNCHANGED files
    /\ UNCHANGED handed

\* Mutant: the outcome of Close is not looked at.
SavedIfWritten(s, closed) == ~upload[s].failed

Saved(s, closed) == ~upload[s].failed /\ closed

\* Close is always called; a failed one reports that data was lost.
SaveClose(s) ==
    LET n == upload[s].name IN
    /\ upload[s].pc = "close"
    /\ \E closed \in BOOLEAN :
       /\ IF closed
          THEN UNCHANGED <<files, errors>>
          ELSE files' = [files EXCEPT ![n].whole = FALSE] /\ IOError
       /\ IF Saved(s, closed)
          THEN /\ handed' = handed \cup {<<n, upload[s].picture>>}
               /\ upload' = [upload EXCEPT ![s] = NoUpload]
          ELSE /\ upload' = [upload EXCEPT ![s].pc = "remove"]
               /\ UNCHANGED handed

\* The outcome of Remove is ignored: a broken file may stay.
SaveRemove(s) ==
    /\ upload[s].pc = "remove"
    /\ upload' = [upload EXCEPT ![s] = NoUpload]
    /\ \/ /\ files' = [files EXCEPT ![upload[s].name] = NoFile]
          /\ UNCHANGED errors
       \/ IOError /\ UNCHANGED files
    /\ UNCHANGED handed

SaveStep(s) ==
    \/ \E p \in Pictures : SaveBegin(s, p)
    \/ \E n \in Names : SaveCreate(s, n)
    \/ SaveWrite(s)
    \/ SaveClose(s)
    \/ SaveRemove(s)

-----------------------------------------------------------------------------
(* Properties *)

\* A URL that was handed out serves its picture, whole and for good: whatever
\* other uploads write, fail to write or remove, and wherever the process
\* died, nobody touches a file somebody may link to.
UrlsServeTheirPicture ==
    \A h \in handed : files[h[1]] = [picture |-> h[2], whole |-> TRUE]
=============================================================================
