------------------------------ MODULE TestSender ------------------------------
(***************************************************************************)
(* Recording and playing back: the recording branch of WebSock's           *)
(* tryParseData (websock.cpp:297-304) appends the H.264 images to a file,  *)
(* and TestSender (testsender.cpp) reads them from it on its own thread,   *)
(* one a timer tick, and posts them to the WebSock, while the GUI thread   *)
(* starts and stops it.  Both use test.bin unless the user names another.  *)
(*                                                                         *)
(* A file is a sequence of cells of four bytes.  A record is a cell with   *)
(* the size of the image, in cells here, and the cells of the image; a     *)
(* cell carries what record it is of.  A write is visible at once, and may *)
(* be cut short: nobody looks at what QFile::write returns, and the        *)
(* program may be killed between two writes.                               *)
(***************************************************************************)
EXTENDS Integers, Sequences

CONSTANTS
    Names,        \* the file names the user may give
    NoName,       \* the empty one: no name, or no file
    DefaultName,  \* test.bin
    Images,       \* the images recorded, sequences of cells
    MAX_SIZE,     \* 99999999, the largest size onTimeout reads
    MaxRecords,   \* bound: images recorded
    MaxPlays,     \* bound: playbacks started
    MaxKills      \* bound: times the program is killed

ASSUME TestSenderAssumption ==
    /\ DefaultName \in Names /\ NoName \notin Names /\ "idle" \notin Names
    /\ Images \subseteq Seq(Nat) \ {<<>>} /\ MAX_SIZE \in Nat
    /\ \A image \in Images : Len(image) <= MAX_SIZE
    /\ MaxRecords \in Nat /\ MaxPlays \in Nat /\ MaxKills \in Nat

VARIABLES
    disk,         \* disk[f]: the cells of file f, [value, record, part]
    cuts,         \* history: where in a file a record begins that is not complete
    records,      \* history and bound: images recorded
    rec, recImage,  \* where the recording branch is, and the image it writes
    m_fileName,   \* of TestSender and of WebSock
    m_isRecord,
    m_file,       \* the file m_file has open, NoName when it is closed
    pos,          \* m_file.pos()
    m_sender,     \* the WebSock is set
    m_mutex,
    timer, data,  \* where the timer thread is, and what it has read
    tick,         \* history: the playback in which its tick began
    gui,          \* where the GUI thread is
    plays,        \* history and bound: playbacks started
    posted,       \* history: what was posted to the WebSock
    kills

recVars == <<disk, cuts, records, rec, recImage>>
fileVars == <<m_file, pos>>
timerVars == <<timer, data, tick>>
userVars == <<m_fileName, m_isRecord, m_sender>>
vars == <<recVars, fileVars, timerVars, userVars, m_mutex, gui, plays, posted, kills>>

Nothing == [play |-> 0, file |-> NoName, at |-> 0, size |-> 0, cells |-> <<>>]

(* WebSock's m_isRecord is not initialised. *)
Init ==
    /\ disk = [f \in Names |-> <<>>] /\ cuts = [f \in Names |-> {}]
    /\ records = 0 /\ rec = "idle" /\ recImage = <<>>
    /\ m_fileName = DefaultName /\ m_isRecord \in BOOLEAN
    /\ m_file = NoName /\ pos = 0
    /\ m_sender = TRUE /\ m_mutex = "free"
    /\ timer = "idle" /\ data = Nothing /\ tick = 0
    /\ gui = "idle" /\ plays = 0 /\ posted = <<>> /\ kills = 0

-----------------------------------------------------------------------------
(* The event loop of WebSock *)

Cells(image, from, to) ==
    [k \in 1 .. to - from + 1 |->
        [value  |-> IF from + k - 1 = 0 THEN Len(image) ELSE image[from + k - 1],
         record |-> records', part |-> from + k - 1]]

(* The size is written, and what is written of it is in the file before the *)
(* image is: QFile flushes its buffer before a write that is larger.        *)
RecordSize(image) ==
    /\ rec = "idle" /\ gui # "closed"
    /\ m_isRecord /\ m_fileName # NoName /\ records < MaxRecords /\ records' = records + 1
    /\ disk' = [disk EXCEPT ![m_fileName] = @ \o Cells(image, 0, 0)]
    /\ rec' = m_fileName /\ recImage' = image
    /\ UNCHANGED cuts

(* The image is written, or as much of it as there is room for. *)
RecordData(n) ==
    /\ rec # "idle" /\ UNCHANGED records
    /\ disk' = [disk EXCEPT ![rec] = @ \o Cells(recImage, 1, n)]
    /\ cuts' = IF n < Len(recImage) THEN [cuts EXCEPT ![rec] = @ \cup {Len(disk[rec]) - 1}]
               ELSE cuts
    /\ rec' = "idle" /\ recImage' = <<>>

Record ==
    /\ \/ \E image \in Images : RecordSize(image)
       \/ \E n \in 0 .. Len(recImage) : RecordData(n)
    /\ UNCHANGED <<fileVars, timerVars, userVars, m_mutex, gui, plays, posted, kills>>

-----------------------------------------------------------------------------
(* The GUI thread *)

SetFilename(name) ==
    /\ gui = "idle" /\ name # m_fileName /\ m_fileName' = name
    /\ UNCHANGED <<fileVars, m_isRecord, m_sender, gui, plays>>

SetRecord ==
    /\ gui = "idle" /\ m_isRecord' = ~m_isRecord
    /\ UNCHANGED <<fileVars, m_fileName, m_sender, gui, plays>>

(* startPlay up to its lock; it returns at once when there is no such file. *)
CallStartPlay ==
    /\ gui = "idle" /\ gui' = "start" /\ plays < MaxPlays
    /\ m_fileName # NoName /\ disk[m_fileName] # <<>>
    /\ UNCHANGED <<fileVars, userVars, plays>>

(* Mutant: startPlay does not lock. *)
StartPlay_NoLock ==
    /\ gui = "start" /\ gui' = "idle"
    /\ m_file' = m_fileName /\ pos' = 0 /\ plays' = plays + 1
    /\ UNCHANGED userVars

StartPlay ==
    /\ gui = "start" /\ gui' = "idle" /\ m_mutex = "free"
    /\ m_file' = m_fileName /\ pos' = 0 /\ plays' = plays + 1
    /\ UNCHANGED userVars

CallStopPlay ==
    /\ gui = "idle" /\ gui' = "stop" /\ plays > 0
    /\ UNCHANGED <<fileVars, userVars, plays>>

StopPlay ==
    /\ gui = "stop" /\ gui' = "idle" /\ m_mutex = "free"
    /\ m_file' = NoName /\ pos' = 0
    /\ UNCHANGED <<userVars, plays>>

(* ~MainWindow and ~TestSender: setSender(nullptr), quit(), and then wait(). *)
Close ==
    /\ gui = "idle" /\ gui' = "closing" /\ m_sender' = FALSE
    /\ UNCHANGED <<fileVars, m_fileName, m_isRecord, plays>>

Closed ==
    /\ gui = "closing" /\ gui' = "closed" /\ timer = "stopped"
    /\ UNCHANGED <<fileVars, userVars, plays>>

GuiWaits == StartPlay \/ StopPlay \/ Closed
Gui(step) == step /\ UNCHANGED <<recVars, timerVars, m_mutex, posted, kills>>
User ==
    (\E name \in Names \cup {NoName} : SetFilename(name)) \/ SetRecord
        \/ CallStartPlay \/ CallStopPlay \/ Close

-----------------------------------------------------------------------------
(* The timer thread: onTimeout *)

TimerFires ==
    /\ timer = "idle" /\ timer' = "lock"
    /\ m_fileName # NoName /\ m_file # NoName /\ m_sender
    /\ tick' = plays
    /\ UNCHANGED <<fileVars, data, m_mutex, posted>>

Content == IF m_file = NoName THEN <<>> ELSE disk[m_file]
Left == Len(Content) - pos

(* Nothing is read of a file that was closed since the test, and size is 0.  A *)
(* size over the limit makes the thread lock the mutex it holds; with the      *)
(* mutex of this platform it waits for ever.                                   *)
ReadSize ==
    /\ timer = "lock" /\ m_mutex = "free" /\ m_mutex' = "timer"
    /\ IF Left > 0
       THEN LET size == Content[pos + 1].value IN
            /\ data' = [play |-> plays, file |-> m_file, at |-> pos, size |-> size, cells |-> <<>>]
            /\ timer' = IF size > MAX_SIZE THEN "relock" ELSE "read"
            /\ pos' = pos + 1
       ELSE data' = Nothing /\ timer' = "read" /\ UNCHANGED pos
    /\ UNCHANGED <<m_file, tick, posted>>

(* Mutants: the position moves on by the size, whatever was read; the file is *)
(* closed when a record was read, not at the end.                             *)
After_Seek(n) == pos' = pos + data.size /\ IF n = Left THEN m_file' = NoName ELSE UNCHANGED m_file
After_Closes(n) == m_file' = NoName /\ pos' = 0

(* The file is closed at its end. *)
After(n) == IF n = Left THEN m_file' = NoName /\ pos' = 0 ELSE pos' = pos + n /\ UNCHANGED m_file

(* The image, or what there is of it. *)
ReadData ==
    /\ timer = "read" /\ timer' = "post" /\ m_mutex' = "free"
    /\ LET n == IF data.size < Left THEN data.size ELSE Left
       IN data' = [data EXCEPT !.cells = SubSeq(Content, pos + 1, pos + n)] /\ After(n)
    /\ UNCHANGED <<tick, posted>>

(* postEvent, which drops the event when setSender(nullptr) was called meanwhile. *)
Post ==
    /\ timer = "post" /\ timer' = "idle" /\ data.cells # <<>>
    /\ posted' = (IF m_sender THEN Append(posted, data) ELSE posted) /\ data' = Nothing
    /\ UNCHANGED <<fileVars, tick, m_mutex>>

(* Mutant: the mutex is locked and not unlocked. *)
Unlock_Never == m_mutex' = "timer"

Unlock == UNCHANGED m_mutex

(* Nothing was read: whatever is open now is closed. *)
CloseEmpty ==
    /\ timer = "post" /\ timer' = "idle" /\ data.cells = <<>>
    /\ m_mutex = "free" /\ Unlock
    /\ m_file' = NoName /\ pos' = 0 /\ data' = Nothing
    /\ UNCHANGED <<tick, posted>>

onTimeout ==
    /\ TimerFires \/ ReadSize \/ ReadData \/ Post \/ CloseEmpty
    /\ UNCHANGED <<recVars, userVars, gui, plays, kills>>

LeaveLoop ==
    /\ timer = "idle" /\ timer' = "stopped" /\ gui = "closing"
    /\ UNCHANGED <<recVars, fileVars, data, tick, userVars, m_mutex, gui, plays, posted, kills>>

-----------------------------------------------------------------------------
(* The program is killed and started again: the files are what is left of it. *)
Kill ==
    /\ kills < MaxKills /\ kills' = kills + 1
    /\ cuts' = IF rec = "idle" THEN cuts
               ELSE [cuts EXCEPT ![rec] = @ \cup {Len(disk[rec]) - 1}]
    /\ rec' = "idle" /\ recImage' = <<>>
    /\ m_fileName' = DefaultName /\ m_isRecord' \in BOOLEAN
    /\ m_file' = NoName /\ pos' = 0 /\ m_sender' = TRUE /\ m_mutex' = "free"
    /\ timer' = "idle" /\ data' = Nothing /\ gui' = "idle"
    /\ UNCHANGED <<disk, records, tick, plays, posted>>

Next == Record \/ Gui(User) \/ Gui(GuiWaits) \/ onTimeout \/ LeaveLoop \/ Kill

Spec == Init /\ [][Next]_vars

(* The two threads run.  Nobody has to record, to start or to stop anything. *)
LiveSpec ==
    /\ Spec
    /\ WF_vars(Gui(GuiWaits))
    /\ WF_vars(onTimeout) /\ WF_vars(LeaveLoop)

-----------------------------------------------------------------------------
Cell == [value : Nat, record : 1 .. MaxRecords, part : Nat]
DataType ==
    [play : 0 .. MaxPlays, file : Names \cup {NoName}, at : Nat, size : Nat, cells : Seq(Cell)]

TypeOK ==
    /\ disk \in [Names -> Seq(Cell)]
    /\ \A f \in Names : cuts[f] \subseteq 0 .. Len(disk[f]) - 1
    /\ records \in 0 .. MaxRecords
    /\ rec \in Names \cup {"idle"} /\ recImage \in Images \cup {<<>>}
    /\ m_fileName \in Names \cup {NoName} /\ m_isRecord \in BOOLEAN
    /\ m_file \in Names \cup {NoName} /\ pos \in 0 .. Len(Content)
    /\ m_sender \in BOOLEAN /\ m_mutex \in {"free", "timer"}
    /\ timer \in {"idle", "lock", "read", "relock", "post", "stopped"}
    /\ data \in DataType
    /\ tick \in 0 .. MaxPlays
    /\ gui \in {"idle", "start", "stop", "closing", "closed"}
    /\ plays \in 0 .. MaxPlays
    /\ posted \in Seq(DataType)
    /\ kills \in 0 .. MaxKills

(* Behind a record that is not complete nothing in the file is where it should be. *)
Broken(f, at) == \E c \in cuts[f] : c <= at

(* Every image posted is an image recorded, whole, unless it was read behind an     *)
(* incomplete record; and those of one playback are the images of the file, in      *)
(* order and none left out, whatever is recorded, started and stopped meanwhile.    *)
WholeImage(cells) ==
    \E image \in Images :
        /\ [k \in DOMAIN cells |-> cells[k].value] = image
        /\ \A k \in DOMAIN cells : cells[k].part = k /\ cells[k].record = cells[1].record
PlaysRecords ==
    \A i \in DOMAIN posted :
        \/ Broken(posted[i].file, posted[i].at)
        \/ /\ WholeImage(posted[i].cells)
           /\ posted[i].at = IF i > 1 /\ posted[i - 1].play = posted[i].play
                             THEN posted[i - 1].at + 1 + Len(posted[i - 1].cells)
                             ELSE 0

(* The thread locks the mutex twice only behind an incomplete record: no order of   *)
(* startPlay, stopPlay, the ticks and the recording makes it read an image as a     *)
(* size.                                                                            *)
HangsOnlyOnBroken == timer = "relock" => Broken(m_file, pos - 1)

(* The timer thread closes a file only where it ends, or behind an incomplete       *)
(* record, or in a tick that began before the file was opened: then the playback    *)
(* just started is over at once.                                                    *)
ClosesAtEnd ==
    [][m_file # NoName /\ m_file' = NoName /\ UNCHANGED <<gui, kills>> =>
          \/ pos + (IF timer = "read" THEN data.size ELSE 0) >= Len(Content)
          \/ Broken(m_file, pos - 1)
          \/ tick # plays]_vars

(* startPlay, stopPlay and ~TestSender return, unless the thread hangs.             *)
GuiReturns == (gui \in {"start", "stop", "closing"}) ~> (gui \in {"idle", "closed"} \/ timer = "relock")
=============================================================================
