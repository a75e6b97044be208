------------------------------ MODULE Community ------------------------------
(***************************************************************************)
(* The community endpoints that keep state of their own, sign-in and media *)
(* upload, in one server process: it may die at any moment, and ends every *)
(* request while the bitmaps in Redis and the files on disk stay as they   *)
(* are.  (The message stream is module Likes; the other endpoints of the   *)
(* handler only read.)                                                     *)
(***************************************************************************)
EXTENDS SignIn, Media

communityVars == <<signVars, mediaVars>>

CommunityInit == SignInit /\ MediaInit

Crash ==
    /\ Fault
    /\ call' = [c \in Signers |-> NoCall]
    /\ upload' = [s \in Uploads |-> NoUpload]
    /\ UNCHANGED <<today, bits, answer, signed, files, handed, errors>>

CommunityNext ==
    \/ \E c \in Signers : SignStep(c) /\ UNCHANGED mediaVars
    \/ Midnight /\ UNCHANGED mediaVars
    \/ \E s \in Uploads : SaveStep(s) /\ UNCHANGED signVars
    \/ Crash

CommunitySpec == CommunityInit /\ [][CommunityNext]_communityVars
=============================================================================
