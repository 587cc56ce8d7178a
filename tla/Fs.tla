---------------------------------- MODULE Fs ----------------------------------
(***************************************************************************)
(* The filesystem server (servers/fs_server/main.c): a USTAR archive read  *)
(* sector by sector through the block driver.                              *)
(*                                                                         *)
(* The server has one thread and serves one request at a time; every       *)
(* blk_read() is a call to the driver, which may fail, so each iteration   *)
(* of a loop around one is a step.                                         *)
(*                                                                         *)
(* Three things the server leaves to its clients are assumed of them here, *)
(* as the shell does them: they close only handles they hold (the server   *)
(* closes whichever handle a MSG_CLOSE names), and never pass a buffer of  *)
(* size 0 (fs_list() writes its terminating zero all the same); those not  *)
(* in Careless bound their reads.                                          *)
(***************************************************************************)
EXTENDS Integers, Sequences, SequencesExt, FiniteSets

CONSTANTS
    SECTOR,              \* bytes of a sector (512)
    NHandles,            \* entries of ftab (8)
    Archives,            \* what the disk may hold: sequences of [name, size]
    Paths,               \* names clients ask for
    Clients,
    Careless,            \* clients whose reads name no bound, as app's do
    Rooms                \* sizes of the clients' buffers

ASSUME FsAssumption ==
    /\ SECTOR \in Nat \ {0} /\ NHandles \in Nat \ {0}
    /\ Careless \subseteq Clients
    /\ Rooms \subseteq Nat \ {0}
    /\ Archives \subseteq Seq([name : Seq(STRING) \ {<< >>}, size : Nat])

Handles == 0 .. NHandles - 1
-----------------------------------------------------------------------------
(* The disk.  A member is a header and as few sectors as hold its data; an *)
(* empty name ends the archive, and so does data that is mistaken for a    *)
(* header.  Byte o of member k is <<k, o>>.                                *)
Pad == <<0, 0>>

ArchiveSector(name, size, data) == [name |-> name, size |-> size, data |-> data]

Filler == [j \in 0 .. SECTOR - 1 |-> Pad]

DataSector(k, i, size) ==
    ArchiveSector(<< >>, 0,
        [j \in 0 .. SECTOR - 1 |->
            IF i * SECTOR + j < size THEN <<k, i * SECTOR + j>> ELSE Pad])

Member(a, k) ==
    LET size == a[k].size
        sectors == CHOOSE n \in 0 .. size : n * SECTOR >= size /\ (n - 1) * SECTOR < size
    IN  <<ArchiveSector(a[k].name, size, Filler)>>
        \o [i \in 1 .. sectors |-> DataSector(k, i - 1, size)]

End == ArchiveSector(<< >>, 0, Filler)

Disk == [a \in Archives |-> FlattenSeq([k \in DOMAIN a |-> Member(a, k)]) \o <<End, End>>]

\* The result of a blk_read() that failed, which is no sector of a disk.
Failed == ArchiveSector(<< >>, -1, Filler)
-----------------------------------------------------------------------------
VARIABLES
    archive,             \* what is on the disk
    ftab,                \* the handle table
    bounce,              \* the bounce buffer
    job,                 \* the request being served and how far it is
    reply,               \* the last answer: its value and the finished job
    held                 \* per client, the handles it has opened, with the member

fsvars == <<archive, ftab, bounce, job, reply, held>>

Unused == [data_lba |-> 0, size |-> 0, used |-> FALSE]

(* room: the size of the client's buffer; max: what the server takes it    *)
(* for; lba: the next header, or sector of the file; buf: the bytes of the *)
(* buffer written so far; out: the text of a listing; clean: no            *)
(* blk_read() of this request has failed.                                  *)
Job(op, c, path, h, room, max) ==
    [op |-> op, client |-> c, path |-> path, h |-> h, room |-> room, max |-> max,
     size |-> 0, lba |-> 0, buf |-> << >>, out |-> << >>, clean |-> TRUE]

NoJob   == Job("none", "none", << >>, -1, 0, 0)
NoReply == [n |-> 0, job |-> NoJob]

\* blk_read(): the sector or an error; beyond the disk only an error.
BlkRead(lba) ==
    {Failed} \cup IF lba < Len(Disk[archive]) THEN {Disk[archive][lba + 1]} ELSE {}

After(sector) == [job EXCEPT !.clean = @ /\ sector # Failed]

Begins(j) == job' = j /\ reply' = NoReply

Answers(j, n) == reply' = [n |-> n, job |-> j] /\ job' = NoJob

FsInit ==
    /\ archive \in Archives
    /\ ftab = [h \in Handles |-> Unused]
    /\ bounce = Filler
    /\ job = NoJob
    /\ reply = NoReply
    /\ held = [c \in Clients |-> {}]
-----------------------------------------------------------------------------
(* The walk over the headers, in fs_open() and fs_list().                  *)
Ends(hdr) == hdr = Failed \/ hdr.name = << >>

\* Mutant: the partial last sector of a member is not skipped.
Skips_Floor(hdr) == 1 + hdr.size \div SECTOR

\* Mutant: the header is not skipped.
Skips_DataOnly(hdr) == (hdr.size + SECTOR - 1) \div SECTOR

Skips(hdr) == 1 + (hdr.size + SECTOR - 1) \div SECTOR

Open(c, path) ==
    /\ job = NoJob
    /\ Begins(Job("open", c, path, -1, 0, 0))
    /\ UNCHANGED <<archive, ftab, bounce, held>>

\* Mutant: a handle in use is given away.
FreeHandle_First(h) == h = 0

FreeHandle(h) == ~ftab[h].used /\ \A i \in 0 .. h - 1 : ftab[i].used

\* The member clients mean by a path: the first of that name.
Meant(path) ==
    CHOOSE k \in DOMAIN archive :
        archive[k].name = path /\ \A i \in 1 .. k - 1 : archive[i].name # path

OpenHits(hdr) ==
    \/ \E h \in Handles :
        /\ FreeHandle(h)
        /\ ftab' = [ftab EXCEPT ![h] = [data_lba |-> job.lba + 1, size |-> hdr.size,
                                        used |-> TRUE]]
        /\ held' = [held EXCEPT ![job.client] = @ \cup {<<h, Meant(job.path)>>}]
        /\ Answers(After(hdr), h)
    \/ /\ \A h \in Handles : ~FreeHandle(h)
       /\ Answers(After(hdr), -1)
       /\ UNCHANGED <<ftab, held>>

\* One round of the loop of fs_open().
OpenStep ==
    /\ job.op = "open"
    /\ \E hdr \in BlkRead(job.lba) :
        \/ Ends(hdr) /\ Answers(After(hdr), -1) /\ UNCHANGED <<ftab, held>>
        \/ ~Ends(hdr) /\ hdr.name = job.path /\ OpenHits(hdr)
        \/ /\ ~Ends(hdr) /\ hdr.name # job.path
           /\ job' = [job EXCEPT !.lba = @ + Skips(hdr)]
           /\ UNCHANGED <<reply, ftab, held>>
    /\ UNCHANGED <<archive, bounce>>
-----------------------------------------------------------------------------
Clipped(size, max) == IF size > max THEN max ELSE size

\* A request without a bound is given the size behind handle 0; the clients
\* of the shipped system that read (the shells) pass one, app would not.
MaxFor(c, room) == IF c \in Careless THEN ftab[0].size ELSE room

\* fs_read() up to its loop.  (A bound of 0 is the same as none.)
Read(c, h, room) ==
    /\ job = NoJob
    /\ LET j == Job("read", c, << >>, h, room, MaxFor(c, room)) IN
       IF ftab[h].used
       THEN Begins([j EXCEPT !.size = Clipped(ftab[h].size, j.max)])
       ELSE Answers(j, -1)
    /\ UNCHANGED <<archive, ftab, bounce, held>>

Full == job.size \div SECTOR
Rem  == job.size - Full * SECTOR

\* The client's buffer after n bytes of data from the given offset on.
Written(offset, n, data) ==
    [o \in DOMAIN job.buf \cup offset .. offset + n - 1 |->
        IF o >= offset THEN data[o - offset] ELSE job.buf[o]]

\* The driver writes full sectors into the client's buffer.
ReadFull ==
    /\ job.op = "read" /\ job.lba < Full
    /\ \E sector \in BlkRead(ftab[job.h].data_lba + job.lba) :
        job' = [After(sector) EXCEPT
                   !.lba = @ + 1,
                   !.buf = IF sector = Failed THEN @
                           ELSE Written(job.lba * SECTOR, SECTOR, sector.data)]
    /\ UNCHANGED <<archive, ftab, bounce, reply, held>>

\* Mutant: the rest is taken from the sector before.
LastSector_Early == ftab[job.h].data_lba + Full - 1

LastSector == ftab[job.h].data_lba + Full

\* The rest of the file goes through the bounce buffer, whatever is in it.
ReadRest ==
    /\ job.op = "read" /\ job.lba = Full
    /\ IF Rem = 0 THEN Answers(job, job.size) /\ UNCHANGED bounce
       ELSE \E sector \in BlkRead(LastSector) :
            /\ bounce' = IF sector = Failed THEN bounce ELSE sector.data
            /\ Answers([After(sector) EXCEPT !.buf = Written(Full * SECTOR, Rem, bounce')],
                       job.size)
    /\ UNCHANGED <<archive, ftab, held>>

(* MSG_CLOSE, of a handle that c holds: h is one of ftab.  (The code       *)
(* answers a number out of range as well, and changes nothing.)            *)
Close(c, h) ==
    /\ job = NoJob
    /\ ftab' = [ftab EXCEPT ![h].used = FALSE]
    /\ held' = [held EXCEPT ![c] = {o \in @ : o[1] # h}]
    /\ Answers(Job("close", c, << >>, h, 0, 0), 0)
    /\ UNCHANGED <<archive, bounce>>
-----------------------------------------------------------------------------
\* MSG_LIST; room > 0, so that the terminating zero has a place.
List(c, room) ==
    /\ job = NoJob
    /\ Begins(Job("list", c, << >>, -1, room, room))
    /\ UNCHANGED <<archive, ftab, bounce, held>>

\* Mutant: the newline may take the place of the terminating zero.
NewlineFits_Exactly(out) == Len(out) < job.max

NewlineFits(out) == Len(out) + 1 < job.max

\* The character after n of a name leaves room for a newline and the zero.
NameFits(out, n) == Len(out) + n + 1 < job.max

\* A name, as much of it as fits, and a newline.
Line(out, name) ==
    LET n == CHOOSE n \in 0 .. Len(name) :
                 /\ n > 0 => NameFits(out, n)
                 /\ n < Len(name) => ~NameFits(out, n + 1)
        named == out \o SubSeq(name, 1, n)
    IN  IF NewlineFits(named) THEN Append(named, "nl") ELSE named

\* One round of the loop of fs_list().
ListStep ==
    /\ job.op = "list"
    /\ \E hdr \in BlkRead(job.lba) :
        IF Ends(hdr) THEN Answers(After(hdr), Len(job.out))
        ELSE /\ job' = [job EXCEPT !.out = Line(@, hdr.name), !.lba = @ + Skips(hdr)]
             /\ UNCHANGED reply
    /\ UNCHANGED <<archive, ftab, bounce, held>>
-----------------------------------------------------------------------------
FsStep == OpenStep \/ ReadFull \/ ReadRest \/ ListStep

FsNext ==
    \/ FsStep
    \/ \E c \in Clients :
        \/ \E path \in Paths : Open(c, path)
        \/ \E o \in held[c] : Close(c, o[1])
        \/ \E room \in Rooms : List(c, room) \/ \E h \in Handles : Read(c, h, room)

FsSpec == FsInit /\ [][FsNext]_fsvars

\* A step of which no blk_read() fails.
GoodStep == FsStep /\ (job.clean => job'.clean /\ reply'.job.clean)

(* The driver answers every request and the server is scheduled; that a    *)
(* read error gets the server out of a loop is not assumed.                *)
FairFsSpec == FsSpec /\ WF_fsvars(GoodStep)
-----------------------------------------------------------------------------
\* Handles and requests keep their types; no walk passes the end mark.
FsTypeOK ==
    /\ archive \in Archives
    /\ \A h \in Handles :
        /\ ftab[h].used \in BOOLEAN
        /\ ftab[h].data_lba \in 0 .. Len(Disk[archive]) /\ ftab[h].size \in Nat
    /\ job.op \in {"none", "open", "read", "list"}
    /\ job.lba \in 0 .. Len(Disk[archive]) - 2
    /\ held \in [Clients -> SUBSET (Handles \X DOMAIN archive)]

(* Every handle in use belongs to one client, the one that was given it    *)
(* and has not closed it, and is of the member that client asked for; a    *)
(* handle not in use belongs to nobody: opens and closes of several        *)
(* clients do not get in each other's way, as long as no client closes a   *)
(* handle that is not its own, which the server would not notice.          *)
HandlesHeld ==
    \A h \in Handles :
        LET holders == {c \in Clients : \E o \in held[c] : o[1] = h} IN
        /\ ftab[h].used => Cardinality(holders) = 1
        /\ ~ftab[h].used => holders = {}
        /\ \A c \in holders : \A o \in held[c] :
              o[1] = h => ftab[h].size = archive[o[2]].size

\* A request is answered in this step.
Answered(op) == job.op = op /\ job' = NoJob

(* An open of a member of the archive fails only for a read error or a     *)
(* full table, wherever in the archive the member is.                      *)
OpenFinds ==
    [][Answered("open") /\ reply'.n = -1 /\ reply'.job.clean =>
          \/ \A k \in DOMAIN archive : archive[k].name # job.path
          \/ \A h \in Handles : ftab[h].used]_fsvars

(* Without a read error the client gets the beginning of the member the    *)
(* handle was opened for, as much as fits, byte for byte, over full        *)
(* sectors and the rest (fs_read).                                         *)
ReadExact ==
    [][Answered("read") /\ reply'.job.clean =>
          \E o \in UNION {held[c] : c \in Clients} :
              /\ o[1] = job.h
              /\ reply'.n = Clipped(archive[o[2]].size, job.max)
              /\ reply'.job.buf = [i \in 0 .. reply'.n - 1 |-> <<o[2], i>>]]_fsvars

(* "Never overrun the caller buffer" (fs_read): no byte is written past    *)
(* its end.  Not so for the buffers of Careless clients.                   *)
ReadFits ==
    \A j \in {job, reply.job} : \A o \in DOMAIN j.buf : j.op = "read" => o < j.room

\* The names of the archive, one a line.
Names == FlattenSeq([k \in DOMAIN archive |-> Append(archive[k].name, "nl")])

(* A listing and its terminating zero fit into the buffer, and it is       *)
(* complete and correct if there is room for it: the two bounds of the     *)
(* loop are neither one too large nor one too small.  (In a buffer of size *)
(* 0, which no client passes, not even the zero would fit.)                *)
ListExact ==
    reply.job.op = "list" =>
        /\ Len(reply.job.out) + 1 <= reply.job.room
        /\ reply.job.clean /\ Len(Names) + 1 <= reply.job.room => reply.job.out = Names

\* Every request is answered: the walk over the headers ends.
RequestsEnd == []<>(job = NoJob)
=============================================================================
