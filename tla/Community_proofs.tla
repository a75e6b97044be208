-------------------------- MODULE Community_proofs --------------------------
(***************************************************************************)
(* Why a URL that was handed out serves its picture for good: a name has   *)
(* at most one owner, the upload that created its file and has not         *)
(* finished, and only the owner touches the file; the owner gives up the   *)
(* name in the step in which it hands it out, or never hands it out.       *)
(***************************************************************************)
EXTENDS Community, TLAPS

Whole(p) == [picture |-> p, whole |-> TRUE]

\* The upload s created the file of this name and is not done with it.
Owns(s, n) ==
    /\ upload[s].pc \in {"write", "close", "remove"}
    /\ upload[s].name = n

HandedOK ==
    \A h \in handed : /\ files[h[1]] = Whole(h[2])
                      /\ \A s \in Uploads : ~Owns(s, h[1])

OwnersApart ==
    \A s, t \in Uploads, n \in Names : Owns(s, n) /\ Owns(t, n) => s = t

OwnedExist == \A s \in Uploads, n \in Names : Owns(s, n) => files[n] # NoFile

\* Write succeeded, and nothing happened to the file since.
WrittenOK ==
    \A s \in Uploads :
        (upload[s].pc = "close" /\ ~upload[s].failed) =>
            files[upload[s].name] = Whole(upload[s].picture)

MediaInv ==
    /\ MediaTypeOK
    /\ HandedOK
    /\ OwnersApart
    /\ OwnedExist
    /\ WrittenOK

-----------------------------------------------------------------------------
LEMMA MediaBegins ==
  ASSUME MediaInit
  PROVE  MediaInv
<1>1. MediaTypeOK
  BY DEF MediaInit, MediaTypeOK
<1>2. \A s \in Uploads, n \in Names : ~Owns(s, n)
  BY DEF MediaInit, Owns, NoUpload
<1>3. \A s \in Uploads : upload[s].pc = "idle"
  BY DEF MediaInit, NoUpload
<1>4. HandedOK /\ WrittenOK
  BY <1>3 DEF MediaInit, HandedOK, WrittenOK
<1> QED BY <1>1, <1>2, <1>4 DEF MediaInv, OwnersApart, OwnedExist

\* The shapes of an upload in progress.
LEMMA UploadShape ==
  ASSUME MediaTypeOK, NEW s \in Uploads
  PROVE  /\ upload[s].pc \in {"idle", "create", "write", "close", "remove"}
         /\ upload[s].pc = "idle" <=> upload[s] = NoUpload
         /\ upload[s].pc = "create" =>
               upload[s] \in [pc : {"create"}, picture : Pictures]
         /\ upload[s].pc \in {"write", "close", "remove"} =>
               upload[s] \in [pc : {"write", "close", "remove"},
                              picture : Pictures, name : Names,
                              failed : BOOLEAN]
<1>1. \/ upload[s] = NoUpload
      \/ upload[s] \in [pc : {"create"}, picture : Pictures]
      \/ upload[s] \in [pc : {"write", "close", "remove"}, picture : Pictures,
                        name : Names, failed : BOOLEAN]
  BY DEF MediaTypeOK
<1> QED BY <1>1 DEF NoUpload

\* The owner of a name that exists: the other uploads and the URLs handed
\* out have names of their own.
LEMMA OwnersName ==
  ASSUME MediaInv, NEW s \in Uploads, NEW n \in Names, Owns(s, n)
  PROVE  /\ \A t \in Uploads : t # s => ~Owns(t, n)
         /\ \A h \in handed : h[1] # n
         /\ files[n] # NoFile
  BY DEF MediaInv, OwnersApart, OwnedExist, HandedOK

\* Nobody owns a free name, and no URL serves it.
LEMMA FreeName ==
  ASSUME MediaInv, NEW n \in Names, Free(n)
  PROVE  /\ \A t \in Uploads : ~Owns(t, n)
         /\ \A h \in handed : h[1] # n
<1>1. \A t \in Uploads : ~Owns(t, n)
  BY DEF MediaInv, OwnedExist, Free
<1>2. \A h \in handed : files[h[1]] = Whole(h[2])
  BY DEF MediaInv, HandedOK
<1>3. files[n].whole = FALSE
  BY DEF Free, NoFile
<1>4. \A p : Whole(p).whole = TRUE
  BY DEF Whole
<1> QED BY <1>1, <1>2, <1>3, <1>4

\* An upload that ends, or starts, without touching its file, gives up its name.
LEMMA OwnerLeaves ==
  ASSUME MediaInv, NEW s \in Uploads, NEW r,
         r = NoUpload \/ r \in [pc : {"create"}, picture : Pictures],
         upload' = [upload EXCEPT ![s] = r],
         UNCHANGED <<files, handed>>, errors' \in Nat
  PROVE  MediaInv'
<1>1. MediaTypeOK'
  BY DEF MediaInv, MediaTypeOK
<1>2. r.pc \in {"idle", "create"}
  BY DEF NoUpload
<1>3. upload'[s] = r /\ \A t \in Uploads : t # s => upload'[t] = upload[t]
  BY DEF MediaInv, MediaTypeOK
<1>4. /\ \A n : ~Owns(s, n)'
      /\ \A t \in Uploads : \A n : t # s => (Owns(t, n)' <=> Owns(t, n))
  BY <1>2, <1>3 DEF Owns
<1>5. HandedOK'
  BY <1>4 DEF MediaInv, HandedOK
<1>6. OwnersApart'
  BY <1>4 DEF MediaInv, OwnersApart
<1>7. OwnedExist'
  BY <1>4 DEF MediaInv, OwnedExist
<1>8. WrittenOK'
  BY <1>2, <1>3 DEF MediaInv, WrittenOK
<1> QED BY <1>1, <1>5, <1>6, <1>7, <1>8 DEF MediaInv

\* The owner of a name, and nobody else, changes what it holds: no URL that
\* was handed out and no other upload notices.
LEMMA OwnerWorks ==
  ASSUME MediaInv, NEW s \in Uploads, NEW n \in Names, NEW f, NEW r,
         Owns(s, n) \/ Free(n),
         \A m \in Names : Owns(s, m) => m = n,
         f \in [picture : Pictures, whole : BOOLEAN],
         r \in [pc : {"write", "close", "remove"}, picture : Pictures,
                name : Names, failed : BOOLEAN],
         r.name = n,
         (r.pc = "close" /\ ~r.failed) => f = Whole(r.picture),
         files' = [files EXCEPT ![n] = f],
         upload' = [upload EXCEPT ![s] = r],
         UNCHANGED handed, errors' \in Nat
  PROVE  MediaInv'
<1>1. MediaTypeOK'
  BY DEF MediaInv, MediaTypeOK
<1>2. /\ \A t \in Uploads : t # s => ~Owns(t, n)
      /\ \A h \in handed : h[1] # n
  BY OwnersName, FreeName
<1>3. upload'[s] = r /\ \A t \in Uploads : t # s => upload'[t] = upload[t]
  BY DEF MediaInv, MediaTypeOK
<1>4. files'[n] = f /\ \A m \in Names : m # n => files'[m] = files[m]
  BY DEF MediaInv, MediaTypeOK
<1>5. /\ \A m : Owns(s, m)' <=> m = n
      /\ \A t \in Uploads : \A m : t # s => (Owns(t, m)' <=> Owns(t, m))
  BY <1>3 DEF Owns
<1>6. \A h \in handed : h[1] \in Names
  BY DEF MediaInv, MediaTypeOK
<1>7. HandedOK'
  BY <1>2, <1>4, <1>5, <1>6 DEF MediaInv, HandedOK
<1>8. OwnersApart'
  BY <1>2, <1>5 DEF MediaInv, OwnersApart
<1>9. f # NoFile
  BY PictureAssumption DEF NoFile
<1>10. OwnedExist'
  BY <1>2, <1>4, <1>5, <1>9 DEF MediaInv, OwnedExist
<1>11. WrittenOK'
  <2>1. SUFFICES ASSUME NEW t \in Uploads,
                        upload'[t].pc = "close", ~upload'[t].failed
                 PROVE  files'[upload'[t].name] = Whole(upload'[t].picture)
    BY DEF WrittenOK
  <2>2. CASE t = s
    BY <2>1, <2>2, <1>3, <1>4
  <2>3. CASE t # s
    <3>1. upload'[t] = upload[t]
      BY <2>3, <1>3
    <3>2. upload[t].name \in Names
      BY <2>1, <3>1, UploadShape DEF MediaInv
    <3>3. Owns(t, upload[t].name)
      BY <2>1, <3>1 DEF Owns
    <3>4. upload[t].name # n
      BY <2>3, <3>3, <1>2
    <3> QED BY <2>1, <3>1, <3>2, <3>4, <1>4 DEF MediaInv, WrittenOK
  <2> QED BY <2>2, <2>3
<1> QED BY <1>1, <1>7, <1>8, <1>10, <1>11 DEF MediaInv

-----------------------------------------------------------------------------
(* The steps of an upload *)

LEMMA CreateKeeps ==
  ASSUME MediaInv, NEW s \in Uploads, NEW n \in Names, SaveCreate(s, n)
  PROVE  MediaInv'
<1> DEFINE p == upload[s].picture
<1>1. /\ upload[s].pc = "create" /\ p \in Pictures
      /\ \A m : ~Owns(s, m)
  BY UploadShape DEF MediaInv, SaveCreate, Owns
<1>2. errors' \in Nat /\ UNCHANGED handed
  BY DEF SaveCreate, IOError, MediaInv, MediaTypeOK
<1>3. CASE /\ Free(n)
           /\ files' = [files EXCEPT ![n] = [picture |-> p, whole |-> FALSE]]
           /\ upload' = [upload EXCEPT ![s] =
                 [pc |-> "write", picture |-> p, name |-> n,
                  failed |-> FALSE]]
  <2> DEFINE f == [picture |-> p, whole |-> FALSE]
             r == [pc |-> "write", picture |-> p, name |-> n, failed |-> FALSE]
  <2>1. /\ f \in [picture : Pictures, whole : BOOLEAN]
        /\ r \in [pc : {"write", "close", "remove"}, picture : Pictures,
                  name : Names, failed : BOOLEAN]
        /\ r.name = n /\ r.pc = "write"
    BY <1>1
  <2> QED BY <1>1, <1>2, <1>3, <2>1, OwnerWorks
<1>4. CASE upload' = [upload EXCEPT ![s] = NoUpload] /\ UNCHANGED files
  BY <1>2, <1>4, OwnerLeaves
<1> QED BY <1>3, <1>4 DEF SaveCreate

LEMMA WriteKeeps ==
  ASSUME MediaInv, NEW s \in Uploads, SaveWrite(s)
  PROVE  MediaInv'
<1> DEFINE u == upload[s]
           n == u.name
           old == files[n]
<1>1. /\ u.pc = "write" /\ u.picture \in Pictures /\ n \in Names
      /\ u = [pc |-> "write", picture |-> u.picture, name |-> n,
              failed |-> u.failed]
      /\ u.failed \in BOOLEAN
  BY UploadShape DEF MediaInv, SaveWrite
<1>2. Owns(s, n) /\ \A m \in Names : Owns(s, m) => m = n
  BY <1>1 DEF Owns
<1>3. errors' \in Nat /\ UNCHANGED handed
  BY DEF SaveWrite, IOError, MediaInv, MediaTypeOK
<1>4. old # NoFile /\ old \in [picture : Pictures, whole : BOOLEAN]
  BY <1>1, <1>2, OwnersName DEF MediaInv, MediaTypeOK
<1>5. CASE /\ files' = [files EXCEPT ![n] = Whole(u.picture)]
           /\ upload' = [upload EXCEPT ![s] = [u EXCEPT !.pc = "close"]]
  <2> DEFINE r == [u EXCEPT !.pc = "close"]
  <2>1. /\ r \in [pc : {"write", "close", "remove"}, picture : Pictures,
                  name : Names, failed : BOOLEAN]
        /\ r.name = n /\ r.picture = u.picture
    BY <1>1
  <2>2. Whole(u.picture) \in [picture : Pictures, whole : BOOLEAN]
    BY <1>1 DEF Whole
  <2> HIDE DEF r, u
  <2> QED BY <1>1, <1>2, <1>3, <1>5, <2>1, <2>2, OwnerWorks
<1>6. CASE /\ upload' = [upload EXCEPT ![s] =
                            [u EXCEPT !.pc = "close", !.failed = TRUE]]
           /\ UNCHANGED files
  <2> DEFINE r == [u EXCEPT !.pc = "close", !.failed = TRUE]
  <2>1. /\ r \in [pc : {"write", "close", "remove"}, picture : Pictures,
                  name : Names, failed : BOOLEAN]
        /\ r.name = n /\ r.failed
    BY <1>1
  <2>2. files' = [files EXCEPT ![n] = old]
    BY <1>6 DEF MediaInv, MediaTypeOK
  <2> HIDE DEF r, u, old
  <2> QED BY <1>1, <1>2, <1>3, <1>4, <1>6, <2>1, <2>2, OwnerWorks
<1> QED BY <1>5, <1>6 DEF SaveWrite, Whole

LEMMA CloseKeeps ==
  ASSUME MediaInv, NEW s \in Uploads, SaveClose(s)
  PROVE  MediaInv'
<1> DEFINE u == upload[s]
           n == u.name
           old == files[n]
<1>1. /\ u.pc = "close" /\ u.picture \in Pictures /\ n \in Names
      /\ u = [pc |-> "close", picture |-> u.picture, name |-> n,
              failed |-> u.failed]
      /\ u.failed \in BOOLEAN
  BY UploadShape DEF MediaInv, SaveClose
<1>2. Owns(s, n) /\ \A m \in Names : Owns(s, m) => m = n
  BY <1>1 DEF Owns
<1>3. /\ \A t \in Uploads : t # s => ~Owns(t, n)
      /\ old # NoFile /\ old \in [picture : Pictures, whole : BOOLEAN]
  BY <1>1, <1>2, OwnersName DEF MediaInv, MediaTypeOK
<1>4. PICK closed \in BOOLEAN :
        /\ IF closed
           THEN UNCHANGED <<files, errors>>
           ELSE files' = [files EXCEPT ![n].whole = FALSE] /\ IOError
        /\ IF Saved(s, closed)
           THEN /\ handed' = handed \cup {<<n, u.picture>>}
                /\ upload' = [upload EXCEPT ![s] = NoUpload]
           ELSE /\ upload' = [upload EXCEPT ![s].pc = "remove"]
                /\ UNCHANGED handed
  BY DEF SaveClose
<1>5. errors' \in Nat
  BY <1>4 DEF IOError, MediaInv, MediaTypeOK
<1>6. CASE Saved(s, closed)
  <2>1. /\ closed /\ ~u.failed /\ UNCHANGED <<files, errors>>
        /\ handed' = handed \cup {<<n, u.picture>>}
        /\ upload' = [upload EXCEPT ![s] = NoUpload]
    BY <1>4, <1>6 DEF Saved
  <2>2. files[n] = Whole(u.picture)
    BY <1>1, <2>1 DEF MediaInv, WrittenOK
  <2>3. MediaTypeOK'
    BY <1>1, <1>5, <2>1 DEF MediaInv, MediaTypeOK
  <2>4. /\ upload'[s] = NoUpload
        /\ \A t \in Uploads : t # s => upload'[t] = upload[t]
    BY <2>1 DEF MediaInv, MediaTypeOK
  <2>5. /\ \A m : ~Owns(s, m)'
        /\ \A t \in Uploads : \A m : t # s => (Owns(t, m)' <=> Owns(t, m))
    BY <2>4 DEF Owns, NoUpload
  <2>6. HandedOK'
    <3>1. SUFFICES ASSUME NEW h \in handed'
                   PROVE  /\ files[h[1]] = Whole(h[2])
                          /\ \A t \in Uploads : ~Owns(t, h[1])'
      BY <2>1 DEF HandedOK
    <3>2. CASE h \in handed
      BY <3>2, <2>5 DEF MediaInv, HandedOK
    <3>3. CASE h = <<n, u.picture>>
      BY <3>3, <1>3, <2>2, <2>5
    <3> QED BY <3>1, <3>2, <3>3, <2>1
  <2>7. OwnersApart' /\ OwnedExist'
    BY <2>1, <2>5 DEF MediaInv, OwnersApart, OwnedExist
  <2>8. WrittenOK'
    BY <2>1, <2>4 DEF MediaInv, WrittenOK, NoUpload
  <2> QED BY <2>3, <2>6, <2>7, <2>8 DEF MediaInv
<1>7. CASE ~Saved(s, closed)
  <2> DEFINE r == [u EXCEPT !.pc = "remove"]
  <2>1. /\ r \in [pc : {"write", "close", "remove"}, picture : Pictures,
                  name : Names, failed : BOOLEAN]
        /\ r.name = n /\ r.pc = "remove"
    BY <1>1
  <2>2. upload' = [upload EXCEPT ![s] = r] /\ UNCHANGED handed
    BY <1>4, <1>7
  <2>3. PICK f \in [picture : Pictures, whole : BOOLEAN] :
          files' = [files EXCEPT ![n] = f]
    <3>1. [old EXCEPT !.whole = FALSE] \in [picture : Pictures, whole : BOOLEAN]
      BY <1>3
    <3>2. files = [files EXCEPT ![n] = old]
      BY DEF MediaInv, MediaTypeOK
    <3> QED BY <1>3, <1>4, <3>1, <3>2
  <2> HIDE DEF r, u
  <2> QED BY <1>1, <1>2, <1>5, <2>1, <2>2, <2>3, OwnerWorks
<1> QED BY <1>6, <1>7

LEMMA RemoveKeeps ==
  ASSUME MediaInv, NEW s \in Uploads, SaveRemove(s)
  PROVE  MediaInv'
<1> DEFINE n == upload[s].name
<1>1. upload[s].pc = "remove" /\ n \in Names
  BY UploadShape DEF MediaInv, SaveRemove
<1>2. Owns(s, n)
  BY <1>1 DEF Owns
<1>3. /\ upload' = [upload EXCEPT ![s] = NoUpload]
      /\ errors' \in Nat /\ UNCHANGED handed
  BY DEF SaveRemove, IOError, MediaInv, MediaTypeOK
<1>4. CASE UNCHANGED files
  BY <1>3, <1>4, OwnerLeaves
<1>5. CASE files' = [files EXCEPT ![n] = NoFile]
  <2>1. MediaTypeOK'
    BY <1>1, <1>3, <1>5 DEF MediaInv, MediaTypeOK
  <2>2. /\ \A t \in Uploads : t # s => ~Owns(t, n)
        /\ \A h \in handed : h[1] # n /\ h[1] \in Names
    BY <1>1, <1>2, OwnersName DEF MediaInv, MediaTypeOK
  <2>3. /\ upload'[s] = NoUpload
        /\ \A t \in Uploads : t # s => upload'[t] = upload[t]
        /\ \A m \in Names : m # n => files'[m] = files[m]
    BY <1>1, <1>3, <1>5 DEF MediaInv, MediaTypeOK
  <2>4. /\ \A m : ~Owns(s, m)'
        /\ \A t \in Uploads : \A m : t # s => (Owns(t, m)' <=> Owns(t, m))
    BY <2>3 DEF Owns, NoUpload
  <2>5. HandedOK'
    BY <1>3, <2>2, <2>3, <2>4 DEF MediaInv, HandedOK
  <2>6. OwnersApart'
    BY <2>4 DEF MediaInv, OwnersApart
  <2>7. OwnedExist'
    BY <2>2, <2>3, <2>4 DEF MediaInv, OwnedExist
  <2>8. WrittenOK'
    <3>1. SUFFICES ASSUME NEW t \in Uploads,
                          upload'[t].pc = "close", ~upload'[t].failed
                   PROVE  files'[upload'[t].name] = Whole(upload'[t].picture)
      BY DEF WrittenOK
    <3>2. t # s /\ upload'[t] = upload[t]
      BY <3>1, <2>3 DEF NoUpload
    <3>3. Owns(t, upload[t].name) /\ upload[t].name \in Names
      BY <3>1, <3>2, UploadShape DEF MediaInv, Owns
    <3> QED BY <3>1, <3>2, <3>3, <2>2, <2>3 DEF MediaInv, WrittenOK
  <2> QED BY <2>1, <2>5, <2>6, <2>7, <2>8 DEF MediaInv
<1> QED BY <1>4, <1>5 DEF SaveRemove

-----------------------------------------------------------------------------
(* The process dies: its uploads are gone, their files stay *)

LEMMA CrashKeeps ==
  ASSUME MediaInv, Crash
  PROVE  MediaInv'
<1>1. /\ \A s \in Uploads : upload'[s] = NoUpload
      /\ UNCHANGED <<files, handed, errors>>
  BY DEF Crash
<1>2. MediaTypeOK'
  BY DEF Crash, MediaInv, MediaTypeOK
<1>3. \A s \in Uploads : \A n : ~Owns(s, n)'
  BY <1>1 DEF Owns, NoUpload
<1>4. HandedOK'
  BY <1>1, <1>3 DEF MediaInv, HandedOK
<1>5. OwnersApart' /\ OwnedExist'
  BY <1>3 DEF OwnersApart, OwnedExist
<1>6. WrittenOK'
  BY <1>1 DEF WrittenOK, NoUpload
<1> QED BY <1>2, <1>4, <1>5, <1>6 DEF MediaInv

LEMMA MediaStep ==
  ASSUME MediaInv, [CommunityNext]_communityVars
  PROVE  MediaInv'
<1>1. ASSUME NEW s \in Uploads, SaveStep(s)
      PROVE  MediaInv'
  <2>1. ASSUME NEW p \in Pictures, SaveBegin(s, p)
        PROVE  MediaInv'
    BY <2>1, OwnerLeaves DEF SaveBegin, MediaInv, MediaTypeOK
  <2> QED BY <1>1, <2>1, CreateKeeps, WriteKeeps, CloseKeeps, RemoveKeeps
          DEF SaveStep
<1>2. ASSUME UNCHANGED mediaVars
      PROVE  MediaInv'
  BY <1>2 DEF mediaVars, MediaInv, MediaTypeOK, HandedOK, OwnersApart,
              OwnedExist, WrittenOK, Owns
<1> QED BY <1>1, <1>2, CrashKeeps DEF CommunityNext, communityVars

\* Every state of the community endpoints satisfies the invariant.
THEOREM MediaInvariant == CommunitySpec => []MediaInv
<1>1. CommunityInit => MediaInv
  BY MediaBegins DEF CommunityInit
<1>2. MediaInv /\ [CommunityNext]_communityVars => MediaInv'
  BY MediaStep
<1> QED BY <1>1, <1>2, PTL DEF CommunitySpec

\* A URL answered by POST /uploads serves its picture, whole and for good, for
\* any number of concurrent uploads, pictures and names, wherever creating,
\* writing, closing or removing a file failed or the process died.
THEOREM UrlsAlwaysServe == CommunitySpec => []UrlsServeTheirPicture
<1>1. MediaInv => UrlsServeTheirPicture
  BY DEF MediaInv, HandedOK, UrlsServeTheirPicture, Whole
<1> QED BY <1>1, MediaInvariant, PTL
=============================================================================
