---------------------------- MODULE TestSenderProofs ----------------------------
(***************************************************************************)
(* Recording and playing back, for any names, images and numbers of        *)
(* records, playbacks and kills: the types, that what is played is what    *)
(* was recorded, that the mutex is locked twice only behind an incomplete  *)
(* record, and where a file is closed.                                     *)
(***************************************************************************)
EXTENDS TestSender, SequenceTheorems, TLAPS

SenderTypes ==
    /\ TypeOK /\ DOMAIN cuts = Names
    /\ data.play <= plays /\ tick <= plays /\ (gui = "start" => plays < MaxPlays)
    /\ \A i \in DOMAIN posted : posted[i].play <= plays

(* A record in a file, from its size in cell k: all of it is there and another one may follow, *)
(* or it is being written.                                                                       *)
Complete(f, k) ==
    \E image \in Images :
        /\ disk[f][k].value = Len(image) /\ k + Len(image) <= Len(disk[f])
        /\ \A j \in 1 .. Len(image) :
               disk[f][k + j] = [value |-> image[j], record |-> disk[f][k].record, part |-> j]
        /\ k + Len(image) < Len(disk[f]) => disk[f][k + Len(image) + 1].part = 0
Unfinished(f, k) == rec = f /\ k = Len(disk[f])

(* A file is a sequence of records, of which those in cuts are not complete. *)
FilesInv ==
    /\ \A f \in Names :
          /\ disk[f] # <<>> => disk[f][1].part = 0
          /\ \A k \in DOMAIN disk[f] :
                disk[f][k].part = 0 => k - 1 \in cuts[f] \/ Unfinished(f, k) \/ Complete(f, k)
    /\ rec # "idle" =>
          /\ recImage \in Images /\ records > 0 /\ disk[rec] # <<>>
          /\ disk[rec][Len(disk[rec])] = [value |-> Len(recImage), record |-> records, part |-> 0]

(* A place where a size is, or behind an incomplete record. *)
SizeAt(f, at) == Broken(f, at) \/ disk[f][at + 1].part = 0

(* startPlay has found the file. *)
StartInv == gui = "start" => m_fileName # NoName /\ disk[m_fileName] # <<>>

(* A file that is to be read on is not at its end, and is at a size. *)
Open ==
    /\ m_file # NoName
    /\ timer \in {"idle", "lock"} \/ (timer = "post" /\ data.cells # <<>>)
OpenInv == Open => pos < Len(disk[m_file]) /\ SizeAt(m_file, pos)

(* When its size has been read, the place is behind it, and nobody else has the mutex. *)
ReadInv ==
    /\ m_mutex = "timer" <=> timer \in {"read", "relock"}
    /\ timer \in {"read", "relock"} =>
          /\ data.cells = <<>>
          /\ m_file = NoName => data = Nothing /\ timer = "read"
          /\ m_file # NoName =>
                /\ data.file = m_file /\ data.play = plays /\ pos = data.at + 1
                /\ data.size = disk[m_file][pos].value /\ SizeAt(m_file, data.at)
    /\ timer = "relock" => data.size > MAX_SIZE

(* What is posted is a whole image, and when there is nothing to post the playback is at its *)
(* end, unless the place is behind an incomplete record.                                      *)
PostInv ==
    timer = "post" =>
        /\ data.cells # <<>> =>
              data.file \in Names /\ (Broken(data.file, data.at) \/ WholeImage(data.cells))
        /\ data.cells = <<>> /\ m_file # NoName /\ tick = plays => Broken(m_file, pos - 1)

PlaceInv == StartInv /\ OpenInv /\ ReadInv /\ PostInv

(* Where the next image of a playback is, by those that were posted. *)
Following(play) ==
    IF posted # <<>> /\ posted[Len(posted)].play = play
    THEN posted[Len(posted)].at + 1 + Len(posted[Len(posted)].cells) ELSE 0
PostedInv ==
    /\ PlaysRecords
    /\ \A i \in DOMAIN posted : posted[i].file \in Names
    /\ timer = "post" /\ data.cells # <<>> => \A i \in DOMAIN posted : posted[i].play <= data.play

(* As long as nothing is dropped, that is what is read next, and what is posted. *)
FollowInv ==
    m_sender =>
        /\ timer \in {"read", "relock"} /\ m_file # NoName => data.at = Following(plays)
        /\ timer = "post" /\ data.cells # <<>> => data.at = Following(data.play)
        /\ Open => pos = IF timer = "post" /\ data.play = plays
                         THEN data.at + 1 + Len(data.cells) ELSE Following(plays)
-----------------------------------------------------------------------------
(* The files *)

LEMMA ImageFacts ==
    ASSUME NEW image \in Images
    PROVE  /\ image \in Seq(Nat) /\ Len(image) \in Nat /\ Len(image) > 0 /\ Len(image) <= MAX_SIZE
           /\ \A k \in 1 .. Len(image) : image[k] \in Nat
<1>1. image \in Seq(Nat) /\ image # <<>> /\ Len(image) <= MAX_SIZE
  BY TestSenderAssumption
<1>2. Len(image) \in Nat \ {0}
  BY <1>1, EmptySeq
<1>. QED
  BY <1>1, <1>2, ElementOfSeq

LEMMA NameFacts == DefaultName \in Names /\ NoName \notin Names /\ "idle" \notin Names
  BY TestSenderAssumption

LEMMA BoundFacts == MaxRecords \in Nat /\ MaxPlays \in Nat /\ MaxKills \in Nat /\ MAX_SIZE \in Nat
  BY TestSenderAssumption

LEMMA DiskFacts ==
    ASSUME SenderTypes, NEW f \in Names
    PROVE  /\ disk[f] \in Seq(Cell) /\ Len(disk[f]) \in Nat /\ DOMAIN disk[f] = 1 .. Len(disk[f])
           /\ (disk[f] = <<>> <=> Len(disk[f]) = 0) /\ Len(<<>>) = 0
           /\ \A k \in 1 .. Len(disk[f]) :
                 disk[f][k] \in Cell /\ disk[f][k].value \in Nat /\ disk[f][k].part \in Nat
           /\ cuts[f] \subseteq 0 .. Len(disk[f]) - 1
<1>1. disk[f] \in Seq(Cell) /\ cuts[f] \subseteq 0 .. Len(disk[f]) - 1
  BY DEF SenderTypes, TypeOK
<1>2. \A k \in 1 .. Len(disk[f]) : disk[f][k] \in Cell
  BY <1>1, ElementOfSeq
<1>3. \A c \in Cell : c.value \in Nat /\ c.part \in Nat
  BY DEF Cell
<1>4. disk[f] # <<>> => Len(disk[f]) # 0
  BY <1>1, EmptySeq
<1>. QED
  BY <1>1, <1>2, <1>3, <1>4, LenProperties

(* The cells that a write adds, and the file behind it. *)
LEMMA CellsAre ==
    ASSUME NEW s, NEW n \in Nat, s = [k \in 1 .. n |-> s[k]], \A k \in 1 .. n : s[k] \in Cell
    PROVE  s \in Seq(Cell) /\ Len(s) = n
<1>1. s \in [1 .. n -> Cell]
  OBVIOUS
<1>2. s \in Seq(Cell)
  BY <1>1, SeqDef
<1>3. 1 .. Len(s) = 1 .. n /\ Len(s) \in Nat
  BY <1>1, <1>2, LenProperties
<1>. QED
  BY <1>2, <1>3

LEMMA Extended ==
    ASSUME SenderTypes, NEW f \in Names, NEW s \in Seq(Cell), disk' = [disk EXCEPT ![f] = @ \o s]
    PROVE  /\ disk' \in [Names -> Seq(Cell)] /\ Len(disk'[f]) = Len(disk[f]) + Len(s)
           /\ \A g \in Names : g # f => disk'[g] = disk[g]
           /\ \A k \in 1 .. Len(disk[f]) : disk'[f][k] = disk[f][k]
           /\ \A k \in 1 .. Len(s) : disk'[f][Len(disk[f]) + k] = s[k]
<1>. DEFINE t == disk[f]
<1>1. disk \in [Names -> Seq(Cell)] /\ t \in Seq(Cell) /\ Len(t) \in Nat /\ Len(s) \in Nat
  BY LenProperties DEF SenderTypes, TypeOK
<1>2. disk'[f] = t \o s /\ \A g \in Names : g # f => disk'[g] = disk[g]
  BY <1>1
<1>3. /\ t \o s \in Seq(Cell) /\ Len(t \o s) = Len(t) + Len(s)
      /\ \A i \in 1 .. Len(t) + Len(s) : (t \o s)[i] = IF i <= Len(t) THEN t[i] ELSE s[i - Len(t)]
  BY <1>1, ConcatProperties
<1>4. disk' \in [Names -> Seq(Cell)]
  BY <1>1, <1>2, <1>3
<1>. HIDE DEF t
<1>5. \A k \in 1 .. Len(t) : (t \o s)[k] = t[k]
  BY <1>1, <1>3
<1>6. \A k \in 1 .. Len(s) : (t \o s)[Len(t) + k] = s[k]
  BY <1>1, <1>3
<1>. QED
  BY <1>2, <1>3, <1>4, <1>5, <1>6 DEF t

LEMMA SizeRecorded ==
    ASSUME SenderTypes, NEW image \in Images, RecordSize(image)
    PROVE  /\ m_fileName \in Names /\ rec = "idle" /\ rec' = m_fileName /\ recImage' = image /\ cuts' = cuts
           /\ records \in Nat /\ records' = records + 1 /\ records' \in 1 .. MaxRecords
           /\ disk' \in [Names -> Seq(Cell)] /\ Len(disk'[m_fileName]) = Len(disk[m_fileName]) + 1
           /\ \A g \in Names : g # m_fileName => disk'[g] = disk[g]
           /\ \A k \in 1 .. Len(disk[m_fileName]) : disk'[m_fileName][k] = disk[m_fileName][k]
           /\ disk'[m_fileName][Len(disk[m_fileName]) + 1] =
                 [value |-> Len(image), record |-> records', part |-> 0]
<1>. DEFINE s == Cells(image, 0, 0)
            c == [value |-> Len(image), record |-> records', part |-> 0]
<1>1. /\ m_fileName \in Names /\ rec = "idle" /\ rec' = m_fileName /\ recImage' = image /\ cuts' = cuts
      /\ records \in Nat /\ records' = records + 1 /\ records' \in 1 .. MaxRecords
      /\ disk' = [disk EXCEPT ![m_fileName] = @ \o s]
  <2>1. /\ m_fileName # NoName /\ rec = "idle" /\ rec' = m_fileName /\ recImage' = image /\ cuts' = cuts
        /\ records < MaxRecords /\ records' = records + 1
        /\ disk' = [disk EXCEPT ![m_fileName] = @ \o s]
    BY DEF RecordSize
  <2>2. m_fileName \in Names \cup {NoName} /\ records \in 0 .. MaxRecords
    BY DEF SenderTypes, TypeOK
  <2>3. m_fileName \in Names
    BY <2>1, <2>2
  <2>4. records \in Nat /\ records + 1 \in 1 .. MaxRecords
    <3>1. records < MaxRecords
      BY <2>1
    <3>2. records \in 0 .. MaxRecords
      BY <2>2
    <3>. QED
      BY <3>1, <3>2, BoundFacts
  <2>. QED
    BY <2>1, <2>3, <2>4
<1>2. s = [k \in 1 .. 1 |-> s[k]] /\ s[1] = c
  BY DEF Cells
<1>3. c \in Cell
  BY <1>1, ImageFacts DEF Cell
<1>4. s \in Seq(Cell) /\ Len(s) = 1
  <2>. HIDE DEF s, c
  <2>1. \A k \in 1 .. 1 : s[k] \in Cell
    BY <1>2, <1>3
  <2>. QED
    BY <1>2, <2>1, CellsAre
<1>. HIDE DEF s, c
<1>5. /\ disk' \in [Names -> Seq(Cell)] /\ Len(disk'[m_fileName]) = Len(disk[m_fileName]) + 1
      /\ \A g \in Names : g # m_fileName => disk'[g] = disk[g]
      /\ \A k \in 1 .. Len(disk[m_fileName]) : disk'[m_fileName][k] = disk[m_fileName][k]
      /\ disk'[m_fileName][Len(disk[m_fileName]) + 1] = c
  <2>1. /\ disk' \in [Names -> Seq(Cell)] /\ Len(disk'[m_fileName]) = Len(disk[m_fileName]) + Len(s)
        /\ \A g \in Names : g # m_fileName => disk'[g] = disk[g]
        /\ \A k \in 1 .. Len(disk[m_fileName]) : disk'[m_fileName][k] = disk[m_fileName][k]
        /\ \A k \in 1 .. Len(s) : disk'[m_fileName][Len(disk[m_fileName]) + k] = s[k]
    BY <1>1, <1>4, Extended
  <2>2. 1 \in 1 .. Len(s)
    BY <1>4
  <2>. QED
    BY <1>2, <1>4, <2>1, <2>2
<1>. QED
  BY <1>1, <1>5 DEF c

LEMMA DataRecorded ==
    ASSUME SenderTypes, FilesInv, NEW n \in 0 .. Len(recImage), RecordData(n)
    PROVE  /\ rec \in Names /\ rec' = "idle" /\ recImage' = <<>> /\ recImage \in Images
           /\ n \in Nat /\ n <= Len(recImage)
           /\ records' = records /\ disk[rec] # <<>>
           /\ disk' \in [Names -> Seq(Cell)] /\ Len(disk'[rec]) = Len(disk[rec]) + n
           /\ \A g \in Names : g # rec => disk'[g] = disk[g]
           /\ \A k \in 1 .. Len(disk[rec]) : disk'[rec][k] = disk[rec][k]
           /\ \A k \in 1 .. n : disk'[rec][Len(disk[rec]) + k] =
                 [value |-> recImage[k], record |-> records, part |-> k]
           /\ DOMAIN cuts' = Names /\ \A g \in Names : g # rec => cuts'[g] = cuts[g]
           /\ cuts'[rec] = IF n < Len(recImage) THEN cuts[rec] \cup {Len(disk[rec]) - 1} ELSE cuts[rec]
<1>. DEFINE s == Cells(recImage, 1, n)
<1>1. /\ rec \in Names /\ rec' = "idle" /\ recImage' = <<>> /\ recImage \in Images /\ records' = records
      /\ disk[rec] # <<>> /\ records \in 1 .. MaxRecords /\ disk' = [disk EXCEPT ![rec] = @ \o s]
  <2>1. /\ rec # "idle" /\ rec' = "idle" /\ recImage' = <<>> /\ records' = records
        /\ disk' = [disk EXCEPT ![rec] = @ \o s]
    BY DEF RecordData
  <2>2. recImage \in Images /\ records > 0 /\ disk[rec] # <<>>
    BY <2>1 DEF FilesInv
  <2>3. rec \in Names \cup {"idle"} /\ records \in 0 .. MaxRecords
    BY DEF SenderTypes, TypeOK
  <2>4. records \in 1 .. MaxRecords
    BY <2>2, <2>3, BoundFacts
  <2>. QED
    BY <2>1, <2>2, <2>3, <2>4
<1>2. n \in Nat /\ n <= Len(recImage) /\ Len(recImage) \in Nat
  BY <1>1, ImageFacts
<1>3. /\ s = [k \in 1 .. n |-> s[k]]
      /\ \A k \in 1 .. n : s[k] = [value |-> recImage[k], record |-> records, part |-> k]
  <2>1. n - 1 + 1 = n /\ \A k \in 1 .. n : 1 + k - 1 = k /\ k # 0
    BY <1>2
  <2>2. s = [k \in 1 .. n |-> [value |-> recImage[k], record |-> records, part |-> k]]
    BY <1>1, <2>1 DEF Cells
  <2>. QED
    BY <2>2
<1>4. \A k \in 1 .. n : s[k] \in Cell
  <2>. TAKE k \in 1 .. n
  <2>1. k \in Nat /\ recImage[k] \in Nat
    BY <1>1, <1>2, ImageFacts
  <2>2. s[k] = [value |-> recImage[k], record |-> records, part |-> k]
    BY <1>3
  <2>. HIDE DEF s
  <2>. QED
    BY <1>1, <2>1, <2>2 DEF Cell
<1>5. s \in Seq(Cell) /\ Len(s) = n
  <2>. HIDE DEF s
  <2>. QED
    BY <1>2, <1>3, <1>4, CellsAre
<1>. HIDE DEF s
<1>6. /\ disk' \in [Names -> Seq(Cell)] /\ Len(disk'[rec]) = Len(disk[rec]) + n
      /\ \A g \in Names : g # rec => disk'[g] = disk[g]
      /\ \A k \in 1 .. Len(disk[rec]) : disk'[rec][k] = disk[rec][k]
      /\ \A k \in 1 .. n : disk'[rec][Len(disk[rec]) + k] = s[k]
  BY <1>1, <1>5, Extended
<1>7. /\ DOMAIN cuts' = Names /\ \A g \in Names : g # rec => cuts'[g] = cuts[g]
      /\ cuts'[rec] = IF n < Len(recImage) THEN cuts[rec] \cup {Len(disk[rec]) - 1} ELSE cuts[rec]
  BY <1>1 DEF RecordData, SenderTypes
<1>. QED
  BY <1>1, <1>2, <1>3, <1>6, <1>7
-----------------------------------------------------------------------------
(* The types *)

LEMMA InitSender == Init => SenderTypes
<1>. SUFFICES ASSUME Init PROVE SenderTypes
  OBVIOUS
<1>1. <<>> \in Seq(Cell) /\ <<>> \in Seq(DataType) /\ Len(<<>>) = 0
  BY EmptySeq
<1>2. Nothing \in DataType
  BY <1>1, BoundFacts DEF Nothing, DataType
<1>3. disk \in [Names -> Seq(Cell)] /\ \A f \in Names : cuts[f] \subseteq 0 .. Len(disk[f]) - 1
  BY <1>1 DEF Init
<1>4. Content = <<>> /\ pos \in 0 .. Len(Content)
  <2>1. m_file = NoName /\ pos = 0
    BY DEF Init
  <2>2. Content = <<>>
    BY <2>1 DEF Content
  <2>3. Len(Content) = 0
    BY <1>1, <2>2
  <2>4. pos \in 0 .. Len(Content)
    BY <2>1, <2>3
  <2>. QED
    BY <2>2, <2>4
<1>5. TypeOK
  <2>1. 0 \in 0 .. MaxRecords /\ 0 \in 0 .. MaxPlays /\ 0 \in 0 .. MaxKills
    BY BoundFacts
  <2>2. /\ m_fileName \in Names \cup {NoName} /\ m_isRecord \in BOOLEAN /\ m_file \in Names \cup {NoName}
        /\ m_sender \in BOOLEAN /\ m_mutex \in {"free", "timer"}
        /\ timer \in {"idle", "lock", "read", "relock", "post", "stopped"}
        /\ gui \in {"idle", "start", "stop", "closing", "closed"}
        /\ rec \in Names \cup {"idle"} /\ recImage \in Images \cup {<<>>}
    BY NameFacts DEF Init
  <2>3. data \in DataType /\ posted \in Seq(DataType)
    BY <1>1, <1>2 DEF Init
  <2>4. records = 0 /\ tick = 0 /\ plays = 0 /\ kills = 0
    BY DEF Init
  <2>. QED
    BY <1>3, <1>4, <2>1, <2>2, <2>3, <2>4 DEF TypeOK
<1>6. DOMAIN posted = {} /\ data.play = 0 /\ plays = 0 /\ tick = 0 /\ DOMAIN cuts = Names
  <2>1. data = Nothing /\ posted = <<>> /\ plays = 0 /\ tick = 0 /\ DOMAIN cuts = Names
    BY DEF Init
  <2>2. DOMAIN posted = {}
    BY <2>1
  <2>3. data.play = 0
    BY <2>1 DEF Nothing
  <2>. QED
    BY <2>1, <2>2, <2>3
<1>7. gui # "start"
  BY DEF Init
<1>. QED
  BY <1>5, <1>6, <1>7 DEF SenderTypes

(* What a write leaves of the files: all that was in them. *)
Grown ==
    /\ disk' \in [Names -> Seq(Cell)] /\ DOMAIN cuts' = Names
    /\ \A f \in Names :
          /\ Len(disk[f]) <= Len(disk'[f])
          /\ \A k \in 1 .. Len(disk[f]) : disk'[f][k] = disk[f][k]
          /\ cuts[f] \subseteq cuts'[f] /\ cuts'[f] \subseteq 0 .. Len(disk'[f]) - 1

LEMMA RecordGrows ==
    ASSUME SenderTypes, FilesInv, Record
    PROVE  /\ Grown
           /\ records' \in 0 .. MaxRecords /\ rec' \in Names \cup {"idle"} /\ recImage' \in Images \cup {<<>>}
           /\ UNCHANGED <<fileVars, timerVars, userVars, m_mutex, gui, plays, posted, kills>>
<1>1. UNCHANGED <<fileVars, timerVars, userVars, m_mutex, gui, plays, posted, kills>>
  BY DEF Record
<1>2. ASSUME NEW image \in Images, RecordSize(image)
      PROVE  Grown /\ records' \in 0 .. MaxRecords /\ rec' \in Names /\ recImage' \in Images
  <2>. DEFINE f == m_fileName
  <2>1. /\ f \in Names /\ rec' = f /\ recImage' = image /\ cuts' = cuts
        /\ records' \in 1 .. MaxRecords
        /\ disk' \in [Names -> Seq(Cell)] /\ Len(disk'[f]) = Len(disk[f]) + 1
        /\ \A g \in Names : g # f => disk'[g] = disk[g]
        /\ \A k \in 1 .. Len(disk[f]) : disk'[f][k] = disk[f][k]
    BY <1>2, SizeRecorded
  <2>2. DOMAIN cuts = Names /\ Len(disk[f]) \in Nat
    BY <2>1, DiskFacts DEF SenderTypes
  <2>. HIDE DEF f
  <2>3. ASSUME NEW g \in Names
        PROVE  /\ Len(disk[g]) <= Len(disk'[g])
               /\ \A k \in 1 .. Len(disk[g]) : disk'[g][k] = disk[g][k]
               /\ cuts[g] \subseteq cuts'[g] /\ cuts'[g] \subseteq 0 .. Len(disk'[g]) - 1
    <3>1. Len(disk[g]) \in Nat /\ cuts[g] \subseteq 0 .. Len(disk[g]) - 1
      BY DiskFacts
    <3>2. Len(disk[g]) <= Len(disk'[g]) /\ Len(disk'[g]) \in Nat
      BY <2>1, <2>2, <3>1
    <3>3. \A k \in 1 .. Len(disk[g]) : disk'[g][k] = disk[g][k]
      BY <2>1
    <3>4. 0 .. Len(disk[g]) - 1 \subseteq 0 .. Len(disk'[g]) - 1
      BY <3>1, <3>2
    <3>. QED
      BY <2>1, <3>1, <3>2, <3>3, <3>4
  <2>4. records' \in 0 .. MaxRecords
    BY <2>1, BoundFacts
  <2>. QED
    BY <2>1, <2>2, <2>3, <2>4 DEF Grown
<1>3. ASSUME NEW n \in 0 .. Len(recImage), RecordData(n)
      PROVE  Grown /\ records' \in 0 .. MaxRecords /\ rec' = "idle" /\ recImage' = <<>>
  <2>1. /\ rec \in Names /\ rec' = "idle" /\ recImage' = <<>> /\ n \in Nat
        /\ records' = records /\ disk[rec] # <<>>
        /\ disk' \in [Names -> Seq(Cell)] /\ Len(disk'[rec]) = Len(disk[rec]) + n
        /\ \A g \in Names : g # rec => disk'[g] = disk[g]
        /\ \A k \in 1 .. Len(disk[rec]) : disk'[rec][k] = disk[rec][k]
        /\ DOMAIN cuts' = Names /\ \A g \in Names : g # rec => cuts'[g] = cuts[g]
        /\ cuts'[rec] \in {cuts[rec], cuts[rec] \cup {Len(disk[rec]) - 1}}
    BY <1>3, DataRecorded
  <2>2. Len(disk[rec]) \in Nat /\ Len(disk[rec]) > 0
    BY <2>1, DiskFacts
  <2>3. ASSUME NEW g \in Names
        PROVE  /\ Len(disk[g]) <= Len(disk'[g])
               /\ \A k \in 1 .. Len(disk[g]) : disk'[g][k] = disk[g][k]
               /\ cuts[g] \subseteq cuts'[g] /\ cuts'[g] \subseteq 0 .. Len(disk'[g]) - 1
    <3>1. Len(disk[g]) \in Nat /\ cuts[g] \subseteq 0 .. Len(disk[g]) - 1
      BY DiskFacts
    <3>2. Len(disk[g]) <= Len(disk'[g]) /\ Len(disk'[g]) \in Nat
      BY <2>1, <2>2, <3>1
    <3>3. \A k \in 1 .. Len(disk[g]) : disk'[g][k] = disk[g][k]
      BY <2>1
    <3>4. 0 .. Len(disk[g]) - 1 \subseteq 0 .. Len(disk'[g]) - 1
      BY <3>1, <3>2
    <3>5. cuts'[g] \subseteq cuts[g] \cup {Len(disk[g]) - 1} /\ cuts[g] \subseteq cuts'[g]
      BY <2>1
    <3>6. g = rec => Len(disk[g]) - 1 \in 0 .. Len(disk[g]) - 1
      BY <2>2
    <3>7. cuts'[g] \subseteq 0 .. Len(disk[g]) - 1
      BY <2>1, <3>1, <3>5, <3>6
    <3>. QED
      BY <3>2, <3>3, <3>4, <3>5, <3>7
  <2>4. records \in 0 .. MaxRecords
    BY DEF SenderTypes, TypeOK
  <2>. QED
    BY <2>1, <2>3, <2>4 DEF Grown
<1>. QED
  BY <1>1, <1>2, <1>3 DEF Record

LEMMA RecordTypes == ASSUME SenderTypes, FilesInv, Record PROVE SenderTypes'
<1>1. /\ Grown
      /\ records' \in 0 .. MaxRecords /\ rec' \in Names \cup {"idle"} /\ recImage' \in Images \cup {<<>>}
      /\ UNCHANGED <<fileVars, timerVars, userVars, m_mutex, gui, plays, posted, kills>>
  BY RecordGrows
<1>2. pos' \in 0 .. Len(Content')
  <2>1. m_file \in Names \cup {NoName} /\ pos \in 0 .. Len(Content)
    BY DEF SenderTypes, TypeOK
  <2>2. m_file' = m_file /\ pos' = pos
    BY <1>1 DEF fileVars
  <2>3. CASE m_file = NoName
    BY <2>1, <2>2, <2>3 DEF Content
  <2>4. CASE m_file # NoName
    <3>1. Len(disk[m_file]) \in Nat /\ Len(disk[m_file]) <= Len(disk'[m_file]) /\ Len(disk'[m_file]) \in Nat
      BY <1>1, <2>1, <2>4, DiskFacts, LenProperties DEF Grown
    <3>2. Content = disk[m_file] /\ Content' = disk'[m_file]
      BY <2>2, <2>4 DEF Content
    <3>3. pos \in 0 .. Len(disk[m_file])
      BY <2>1, <3>2
    <3>4. pos \in 0 .. Len(disk'[m_file])
      BY <3>1, <3>3
    <3>. QED
      BY <2>2, <3>2, <3>4
  <2>. QED
    BY <2>3, <2>4
<1>3. \A f \in Names : cuts'[f] \subseteq 0 .. Len(disk'[f]) - 1
  BY <1>1 DEF Grown
<1>4. TypeOK'
  BY <1>1, <1>2, <1>3 DEF SenderTypes, TypeOK, Grown, fileVars, timerVars, userVars
<1>. QED
  BY <1>1, <1>4 DEF SenderTypes, Grown, timerVars

LEMMA ContentFacts ==
    ASSUME SenderTypes
    PROVE  /\ Content \in Seq(Cell) /\ Len(Content) \in Nat /\ pos \in Nat /\ pos <= Len(Content)
           /\ m_file \in Names \cup {NoName} /\ Left = Len(Content) - pos /\ Left \in Nat
           /\ \A k \in 1 .. Len(Content) :
                 Content[k] \in Cell /\ Content[k].value \in Nat /\ Content[k].part \in Nat
           /\ m_file = NoName => Content = <<>> /\ Len(Content) = 0 /\ pos = 0
           /\ m_file # NoName => m_file \in Names /\ Content = disk[m_file]
<1>1. m_file \in Names \cup {NoName} /\ pos \in 0 .. Len(Content)
  BY DEF SenderTypes, TypeOK
<1>2. Content \in Seq(Cell) /\ (m_file = NoName => Content = <<>>) /\ (m_file # NoName => Content = disk[m_file])
  BY <1>1, EmptySeq DEF SenderTypes, TypeOK, Content
<1>3. Len(Content) \in Nat
  BY <1>2, LenProperties
<1>4. \A k \in 1 .. Len(Content) : Content[k] \in Cell
  BY <1>2, ElementOfSeq
<1>5. \A c \in Cell : c.value \in Nat /\ c.part \in Nat
  BY DEF Cell
<1>6. m_file = NoName => Len(Content) = 0
  BY <1>2, EmptySeq
<1>. QED
  BY <1>1, <1>2, <1>3, <1>4, <1>5, <1>6 DEF Left

LEMMA DataFacts ==
    ASSUME SenderTypes
    PROVE  /\ data.play \in 0 .. MaxPlays /\ data.file \in Names \cup {NoName} /\ data.at \in Nat
           /\ data.size \in Nat /\ data.cells \in Seq(Cell)
           /\ data = [play |-> data.play, file |-> data.file, at |-> data.at, size |-> data.size,
                      cells |-> data.cells]
  BY DEF SenderTypes, TypeOK, DataType

LEMMA NothingFacts ==
    /\ Nothing \in DataType /\ Nothing.play = 0 /\ Nothing.cells = <<>> /\ Nothing.size = 0
    /\ Nothing.at = 0
<1>1. <<>> \in Seq(Cell)
  BY EmptySeq
<1>. QED
  BY <1>1, BoundFacts DEF Nothing, DataType

LEMMA PlayFacts == SenderTypes => plays \in Nat /\ tick \in Nat /\ plays <= MaxPlays
  BY BoundFacts DEF SenderTypes, TypeOK

(* The files are as they were, and the place is one of the file that is open. *)
LEMMA SameFiles ==
    ASSUME SenderTypes, UNCHANGED <<disk, cuts>>, m_file' \in Names \cup {NoName},
           \/ m_file' = m_file /\ pos' \in Nat /\ pos' <= Len(Content)
           \/ pos' = 0
    PROVE  pos' \in 0 .. Len(Content')
<1>1. CASE m_file' = m_file /\ pos' \in Nat /\ pos' <= Len(Content)
  <2>1. Content' = Content
    BY <1>1 DEF Content
  <2>. QED
    BY <1>1, <2>1, ContentFacts
<1>2. CASE pos' = 0
  <2>1. CASE m_file' = NoName
    <3>1. Content' = <<>> /\ Len(<<>>) = 0
      BY <2>1, EmptySeq DEF Content
    <3>. QED
      BY <1>2, <3>1
  <2>2. CASE m_file' # NoName
    <3>1. Content' = disk[m_file'] /\ m_file' \in Names
      BY <2>2 DEF Content
    <3>2. Len(Content') \in Nat
      BY <3>1, DiskFacts
    <3>. QED
      BY <1>2, <3>2
  <2>. QED
    BY <2>1, <2>2
<1>. QED
  BY <1>1, <1>2

LEMMA GuiTypes == ASSUME SenderTypes, Gui(User) \/ Gui(GuiWaits) PROVE SenderTypes'
<1>1. UNCHANGED <<recVars, timerVars, m_mutex, posted, kills>>
  BY DEF Gui
<1>2. ASSUME User PROVE SenderTypes'
  <2>1. /\ UNCHANGED <<fileVars, plays>> /\ m_fileName' \in Names \cup {NoName} /\ m_isRecord' \in BOOLEAN
        /\ m_sender' \in BOOLEAN /\ gui' \in {"idle", "start", "stop", "closing"}
        /\ gui' = "start" => plays < MaxPlays
    BY <1>2 DEF User, SetFilename, SetRecord, CallStartPlay, CallStopPlay, Close, SenderTypes, TypeOK, userVars
  <2>2. Content' = Content
    BY <1>1, <2>1 DEF Content, recVars, fileVars
  <2>3. TypeOK'
    BY <1>1, <2>1, <2>2 DEF SenderTypes, TypeOK, recVars, fileVars, timerVars
  <2>. QED
    BY <1>1, <2>1, <2>3 DEF SenderTypes, recVars, timerVars
<1>3. ASSUME GuiWaits PROVE SenderTypes'
  <2>1. /\ m_file' \in Names \cup {NoName} /\ (pos' = 0 \/ UNCHANGED fileVars) /\ UNCHANGED userVars
        /\ gui' \in {"idle", "closed"} /\ (plays' = plays \/ (plays' = plays + 1 /\ plays < MaxPlays))
    <3>1. CASE StartPlay
      <4>1. gui = "start" /\ m_file' = m_fileName /\ pos' = 0 /\ plays' = plays + 1 /\ gui' = "idle" /\ UNCHANGED userVars
        BY <3>1 DEF StartPlay
      <4>. QED
        BY <4>1 DEF SenderTypes, TypeOK
    <3>2. CASE StopPlay
      <4>1. gui' = "idle" /\ m_file' = NoName /\ pos' = 0 /\ UNCHANGED userVars /\ plays' = plays
        BY <3>2 DEF StopPlay
      <4>. QED
        BY <4>1 DEF SenderTypes, TypeOK
    <3>3. CASE Closed
      <4>1. gui' = "closed" /\ UNCHANGED fileVars /\ UNCHANGED userVars /\ plays' = plays
        BY <3>3 DEF Closed
      <4>2. m_file' \in Names \cup {NoName}
        BY <4>1 DEF SenderTypes, TypeOK, fileVars
      <4>. QED
        BY <4>1, <4>2 DEF SenderTypes, TypeOK, userVars, fileVars
    <3>. QED
      BY <1>3, <3>1, <3>2, <3>3 DEF GuiWaits
  <2>2. pos' \in 0 .. Len(Content')
    BY <1>1, <2>1, SameFiles, ContentFacts DEF recVars, fileVars
  <2>3. plays' \in 0 .. MaxPlays /\ plays <= plays'
    BY <2>1, PlayFacts, BoundFacts
  <2>4. TypeOK'
    BY <1>1, <2>1, <2>2, <2>3 DEF SenderTypes, TypeOK, recVars, timerVars, userVars
  <2>5. data.play \in Nat /\ data.play <= plays'
    BY <2>3, DataFacts, PlayFacts, BoundFacts DEF SenderTypes
  <2>6. tick <= plays'
    BY <2>3, PlayFacts, BoundFacts DEF SenderTypes
  <2>7. ASSUME NEW i \in DOMAIN posted PROVE posted[i].play <= plays'
    <3>1. posted[i] \in DataType
      BY LenProperties DEF SenderTypes, TypeOK
    <3>2. posted[i].play \in Nat /\ posted[i].play <= plays
      BY <3>1, BoundFacts DEF DataType, SenderTypes
    <3>. QED
      BY <2>3, <3>2, PlayFacts, BoundFacts
  <2>. QED
    BY <1>1, <2>1, <2>4, <2>5, <2>6, <2>7 DEF SenderTypes, recVars, timerVars
<1>. QED
  BY <1>2, <1>3 DEF Gui

LEMMA ReadDataFacts ==
    ASSUME SenderTypes, ReadData
    PROVE  \E n \in Nat :
              /\ n <= data.size /\ n <= Left /\ (n = data.size \/ n = Left) /\ pos + n <= Len(Content)
              /\ data' = [data EXCEPT !.cells = SubSeq(Content, pos + 1, pos + n)]
              /\ data'.cells \in Seq(Cell) /\ Len(data'.cells) = n
              /\ (data'.cells = <<>> <=> n = 0)
              /\ \A k \in 1 .. n : data'.cells[k] = Content[pos + k]
              /\ IF n = Left THEN m_file' = NoName /\ pos' = 0 ELSE pos' = pos + n /\ m_file' = m_file
<1>. DEFINE n == IF data.size < Left THEN data.size ELSE Left
            cells == SubSeq(Content, pos + 1, pos + n)
<1>1. n \in Nat /\ n <= data.size /\ n <= Left /\ (n = data.size \/ n = Left) /\ pos + n <= Len(Content)
  BY DataFacts, ContentFacts
<1>2. /\ data' = [data EXCEPT !.cells = cells]
      /\ IF n = Left THEN m_file' = NoName /\ pos' = 0 ELSE pos' = pos + n /\ m_file' = m_file
  BY DEF ReadData, After
<1>3. data'.cells = cells
  BY <1>2, DataFacts
<1>. HIDE DEF n
<1>4. \A i \in pos + 1 .. pos + n : Content[i] \in Cell
  <2>. TAKE i \in pos + 1 .. pos + n
  <2>1. i \in 1 .. Len(Content)
    BY <1>1, ContentFacts
  <2>. QED
    BY <2>1, ContentFacts
<1>5. pos + 1 \in Int /\ pos + n \in Int /\ (pos + n) - (pos + 1) + 1 = n /\ (pos + 1 <= pos + n <=> n # 0)
  BY <1>1, ContentFacts
<1>6. /\ cells \in Seq(Cell) /\ Len(cells) = n
      /\ \A i \in 1 .. n : cells[i] = Content[pos + 1 + i - 1]
  BY <1>1, <1>4, <1>5, SubSeqProperties
<1>7. cells = <<>> <=> n = 0
  BY <1>6, EmptySeq
<1>8. \A i \in 1 .. n : pos + 1 + i - 1 = pos + i
  BY <1>1, ContentFacts
<1>. QED
  BY <1>1, <1>2, <1>3, <1>6, <1>7, <1>8

LEMMA TimeoutTypes == ASSUME SenderTypes, onTimeout PROVE SenderTypes'
<1>1. UNCHANGED <<recVars, userVars, gui, plays, kills>>
  BY DEF onTimeout
<1>2. ASSUME TimerFires PROVE SenderTypes'
  <2>1. UNCHANGED <<fileVars, data, m_mutex, posted>> /\ timer' = "lock" /\ tick' = plays
    BY <1>2 DEF TimerFires
  <2>2. Content' = Content
    BY <1>1, <2>1 DEF Content, recVars, fileVars
  <2>3. TypeOK'
    BY <1>1, <2>1, <2>2 DEF SenderTypes, TypeOK, recVars, fileVars, userVars
  <2>4. plays <= plays
    BY PlayFacts
  <2>. QED
    BY <1>1, <2>1, <2>3, <2>4 DEF SenderTypes, recVars
<1>3. ASSUME ReadSize PROVE SenderTypes'
  <2>1. /\ UNCHANGED <<m_file, tick, posted>> /\ m_mutex' = "timer" /\ timer' \in {"read", "relock"}
        /\ \/ /\ Left > 0 /\ pos' = pos + 1
              /\ data' = [play |-> plays, file |-> m_file, at |-> pos, size |-> Content[pos + 1].value, cells |-> <<>>]
           \/ pos' = pos /\ data' = Nothing
    BY <1>3 DEF ReadSize
  <2>2. pos' \in Nat /\ pos' <= Len(Content)
    BY <2>1, ContentFacts
  <2>3. pos' \in 0 .. Len(Content')
    BY <1>1, <2>1, <2>2, SameFiles, ContentFacts DEF recVars
  <2>4. data' \in DataType /\ data'.play <= plays
    <3>1. CASE data' = Nothing
      BY <3>1, NothingFacts, PlayFacts
    <3>2. CASE Left > 0 /\ data' = [play |-> plays, file |-> m_file, at |-> pos, size |-> Content[pos + 1].value, cells |-> <<>>]
      <4>1. pos + 1 \in 1 .. Len(Content)
        BY <3>2, ContentFacts
      <4>2. Content[pos + 1].value \in Nat /\ pos \in Nat /\ m_file \in Names \cup {NoName}
        BY <4>1, ContentFacts
      <4>3. <<>> \in Seq(Cell) /\ plays \in 0 .. MaxPlays
        BY EmptySeq DEF SenderTypes, TypeOK
      <4>4. data' \in DataType
        BY <3>2, <4>2, <4>3 DEF DataType
      <4>. QED
        BY <3>2, <4>4, PlayFacts
    <3>. QED
      BY <2>1, <3>1, <3>2
  <2>5. TypeOK'
    BY <1>1, <2>1, <2>3, <2>4 DEF SenderTypes, TypeOK, recVars, userVars
  <2>. QED
    BY <1>1, <2>1, <2>4, <2>5 DEF SenderTypes, recVars
<1>4. ASSUME ReadData PROVE SenderTypes'
  <2>1. UNCHANGED <<tick, posted>> /\ m_mutex' = "free" /\ timer' = "post"
    BY <1>4 DEF ReadData
  <2>2. PICK n \in Nat :
           /\ pos + n <= Len(Content)
           /\ data' = [data EXCEPT !.cells = SubSeq(Content, pos + 1, pos + n)]
           /\ data'.cells \in Seq(Cell)
           /\ IF n = Left THEN m_file' = NoName /\ pos' = 0 ELSE pos' = pos + n /\ m_file' = m_file
    BY <1>4, ReadDataFacts
  <2>3. data' \in DataType /\ data'.play = data.play
    BY <2>2, DataFacts DEF DataType
  <2>4. m_file' \in Names \cup {NoName} /\ (pos' = 0 \/ (m_file' = m_file /\ pos' \in Nat /\ pos' <= Len(Content)))
    BY <2>2, ContentFacts
  <2>5. pos' \in 0 .. Len(Content')
    BY <1>1, <2>4, SameFiles DEF recVars
  <2>6. TypeOK'
    BY <1>1, <2>1, <2>3, <2>4, <2>5 DEF SenderTypes, TypeOK, recVars, userVars
  <2>. QED
    BY <1>1, <2>1, <2>3, <2>6 DEF SenderTypes, recVars
<1>5. ASSUME Post \/ CloseEmpty PROVE SenderTypes'
  <2>1. /\ tick' = tick /\ timer' = "idle" /\ data' = Nothing /\ m_mutex' = m_mutex
        /\ posted' = posted \/ posted' = Append(posted, data)
        /\ UNCHANGED fileVars \/ (m_file' = NoName /\ pos' = 0)
    BY <1>5 DEF Post, CloseEmpty, Unlock
  <2>2. posted' \in Seq(DataType) /\ \A i \in DOMAIN posted' : posted'[i].play <= plays
    <3>1. posted \in Seq(DataType) /\ data \in DataType /\ data.play <= plays
      BY DEF SenderTypes, TypeOK
    <3>2. \A i \in DOMAIN posted : posted[i].play <= plays
      BY DEF SenderTypes
    <3>3. CASE posted' = Append(posted, data)
      <4>1. posted' \in Seq(DataType)
        BY <3>1, <3>3
      <4>2. Len(posted) \in Nat /\ DOMAIN posted = 1 .. Len(posted) /\ DOMAIN posted' = 1 .. Len(posted) + 1
        BY <3>1, <3>3, LenProperties
      <4>3. ASSUME NEW i \in DOMAIN posted' PROVE posted'[i].play <= plays
        <5>1. CASE i = Len(posted) + 1
          BY <3>1, <3>3, <5>1
        <5>2. CASE i \in 1 .. Len(posted)
          BY <3>1, <3>2, <3>3, <4>2, <5>2
        <5>. QED
          BY <4>2, <5>1, <5>2
      <4>. QED
        BY <4>1, <4>3
    <3>. QED
      BY <2>1, <3>1, <3>2, <3>3
  <2>3. m_file' \in Names \cup {NoName} /\ (pos' = 0 \/ (m_file' = m_file /\ pos' \in Nat /\ pos' <= Len(Content)))
    BY <2>1, ContentFacts DEF fileVars
  <2>4. pos' \in 0 .. Len(Content')
    BY <1>1, <2>3, SameFiles DEF recVars
  <2>5. TypeOK'
    BY <1>1, <2>1, <2>2, <2>3, <2>4, NothingFacts DEF SenderTypes, TypeOK, recVars, userVars
  <2>6. data'.play <= plays
    BY <2>1, NothingFacts, PlayFacts
  <2>. QED
    BY <1>1, <2>1, <2>2, <2>5, <2>6 DEF SenderTypes, recVars
<1>. QED
  BY <1>2, <1>3, <1>4, <1>5 DEF onTimeout

LEMMA LeaveTypes == ASSUME SenderTypes, LeaveLoop \/ UNCHANGED vars PROVE SenderTypes'
<1>1. /\ UNCHANGED <<recVars, fileVars, data, tick, userVars, m_mutex, gui, plays, posted, kills>>
      /\ timer' \in {timer, "stopped"}
  BY DEF LeaveLoop, vars, timerVars
<1>2. Content' = Content
  BY <1>1 DEF Content, recVars, fileVars
<1>3. TypeOK'
  BY <1>1, <1>2 DEF SenderTypes, TypeOK, recVars, fileVars, userVars
<1>. QED
  BY <1>1, <1>3 DEF SenderTypes, recVars

LEMMA KillGrows == ASSUME SenderTypes, FilesInv, Kill PROVE Grown /\ disk' = disk
<1>1. /\ disk' = disk
      /\ cuts' = IF rec = "idle" THEN cuts ELSE [cuts EXCEPT ![rec] = @ \cup {Len(disk[rec]) - 1}]
  BY DEF Kill
<1>2. disk' \in [Names -> Seq(Cell)] /\ DOMAIN cuts' = Names
  BY <1>1 DEF SenderTypes, TypeOK
<1>3. rec # "idle" => rec \in Names /\ Len(disk[rec]) \in Nat /\ Len(disk[rec]) > 0
  <2>1. rec # "idle" => rec \in Names /\ disk[rec] # <<>>
    BY DEF SenderTypes, TypeOK, FilesInv
  <2>. QED
    BY <2>1, DiskFacts
<1>4. ASSUME NEW f \in Names
      PROVE  /\ Len(disk[f]) <= Len(disk'[f]) /\ cuts[f] \subseteq cuts'[f]
             /\ cuts'[f] \subseteq 0 .. Len(disk'[f]) - 1
  <2>1. Len(disk[f]) \in Nat /\ cuts[f] \subseteq 0 .. Len(disk[f]) - 1
    BY DiskFacts
  <2>2. cuts'[f] = cuts[f] \/ (f = rec /\ rec # "idle" /\ cuts'[f] = cuts[f] \cup {Len(disk[f]) - 1})
    BY <1>1 DEF SenderTypes
  <2>3. f = rec /\ rec # "idle" => Len(disk[f]) - 1 \in 0 .. Len(disk[f]) - 1
    BY <1>3
  <2>. QED
    BY <1>1, <2>1, <2>2, <2>3
<1>. QED
  BY <1>1, <1>2, <1>4 DEF Grown

LEMMA KillTypes == ASSUME SenderTypes, FilesInv, Kill PROVE SenderTypes'
<1>1. Grown /\ disk' = disk
  BY KillGrows
<1>2. /\ kills < MaxKills /\ kills' = kills + 1 /\ rec' = "idle" /\ recImage' = <<>>
      /\ m_fileName' = DefaultName /\ m_isRecord' \in BOOLEAN /\ m_file' = NoName /\ pos' = 0
      /\ m_sender' = TRUE /\ m_mutex' = "free" /\ timer' = "idle" /\ data' = Nothing /\ gui' = "idle"
      /\ UNCHANGED <<records, tick, plays, posted>>
  BY DEF Kill
<1>3. Content' = <<>> /\ Len(<<>>) = 0
  BY <1>2, EmptySeq DEF Content
<1>4. pos' \in 0 .. Len(Content')
  BY <1>2, <1>3
<1>5. kills' \in 0 .. MaxKills
  <2>1. kills \in 0 .. MaxKills
    BY DEF SenderTypes, TypeOK
  <2>. QED
    BY <1>2, <2>1, BoundFacts
<1>6. TypeOK'
  BY <1>1, <1>2, <1>4, <1>5, NothingFacts, NameFacts DEF SenderTypes, TypeOK, Grown
<1>7. data'.play <= plays'
  BY <1>2, NothingFacts, PlayFacts
<1>. QED
  BY <1>1, <1>2, <1>6, <1>7 DEF SenderTypes, Grown

LEMMA NextTypes == SenderTypes /\ FilesInv /\ [Next]_vars => SenderTypes'
  BY RecordTypes, GuiTypes, TimeoutTypes, LeaveTypes, KillTypes DEF Next
-----------------------------------------------------------------------------
(* The files are sequences of records *)

LEMMA InitFiles == Init => FilesInv
<1>. SUFFICES ASSUME Init PROVE FilesInv
  OBVIOUS
<1>1. rec = "idle" /\ \A f \in Names : disk[f] = <<>> /\ DOMAIN disk[f] = {}
  BY DEF Init
<1>. QED
  BY <1>1 DEF FilesInv

(* A record that was complete is, when what is written behind it is a size, or the image that *)
(* belongs to the size at the end.                                                              *)
LEMMA CompleteKept ==
    ASSUME SenderTypes, Grown, NEW f \in Names, NEW k \in 1 .. Len(disk[f]), Complete(f, k),
           \/ Len(disk'[f]) = Len(disk[f])
           \/ disk'[f][Len(disk[f]) + 1].part = 0
           \/ disk[f][Len(disk[f])].part = 0
    PROVE  Complete(f, k)'
<1>. DEFINE l == Len(disk[f])
<1>1. PICK image \in Images :
         /\ disk[f][k].value = Len(image) /\ k + Len(image) <= l
         /\ \A j \in 1 .. Len(image) :
                disk[f][k + j] = [value |-> image[j], record |-> disk[f][k].record, part |-> j]
         /\ k + Len(image) < l => disk[f][k + Len(image) + 1].part = 0
  BY DEF Complete
<1>2. Len(image) \in Nat /\ Len(image) > 0 /\ l \in Nat /\ k \in Nat /\ k > 0
  BY ImageFacts, DiskFacts
<1>3. /\ l <= Len(disk'[f]) /\ Len(disk'[f]) \in Nat
      /\ \A i \in 1 .. l : disk'[f][i] = disk[f][i]
  BY LenProperties DEF Grown
<1>. HIDE DEF l
<1>4. disk'[f][k] = disk[f][k]
  BY <1>3 DEF l
<1>5. \A j \in 1 .. Len(image) : k + j \in 1 .. l
  BY <1>1, <1>2
<1>6. \A j \in 1 .. Len(image) :
         disk'[f][k + j] = [value |-> image[j], record |-> disk'[f][k].record, part |-> j]
  BY <1>1, <1>3, <1>4, <1>5
<1>7. ASSUME k + Len(image) < Len(disk'[f]) PROVE disk'[f][k + Len(image) + 1].part = 0
  <2>1. CASE k + Len(image) < l
    <3>1. k + Len(image) + 1 \in 1 .. l
      BY <1>2, <2>1
    <3>. QED
      BY <1>1, <1>3, <2>1, <3>1
  <2>2. CASE k + Len(image) = l
    <3>1. Len(image) \in 1 .. Len(image)
      BY <1>2
    <3>2. disk[f][l].part = Len(image)
      <4>1. ASSUME NEW j \in 1 .. Len(image) PROVE disk[f][k + j].part = j
        <5>1. disk[f][k + j] = [value |-> image[j], record |-> disk[f][k].record, part |-> j]
          BY <1>1
        <5>. QED
          BY <5>1
      <4>2. disk[f][k + Len(image)].part = Len(image)
        BY <3>1, <4>1
      <4>. QED
        BY <2>2, <4>2
    <3>3. Len(disk'[f]) # l /\ disk[f][l].part # 0
      BY <1>2, <1>7, <2>2, <3>2
    <3>. QED
      BY <2>2, <3>3 DEF l
  <2>3. k + Len(image) <= l
    BY <1>1
  <2>. QED
    BY <1>2, <2>1, <2>2, <2>3
<1>8. k + Len(image) <= Len(disk'[f])
  BY <1>1, <1>2, <1>3
<1>. QED
  BY <1>1, <1>4, <1>6, <1>7, <1>8 DEF Complete

LEMMA SizeFiles ==
    ASSUME SenderTypes, FilesInv, Record, NEW image \in Images, RecordSize(image)
    PROVE  FilesInv'
<1>. DEFINE f == m_fileName
            l == Len(disk[m_fileName])
<1>1. /\ f \in Names /\ rec = "idle" /\ rec' = f /\ recImage' = image /\ cuts' = cuts
      /\ records' \in 1 .. MaxRecords
      /\ Len(disk'[f]) = l + 1
      /\ \A g \in Names : g # f => disk'[g] = disk[g]
      /\ \A k \in 1 .. l : disk'[f][k] = disk[f][k]
      /\ disk'[f][l + 1] = [value |-> Len(image), record |-> records', part |-> 0]
  BY SizeRecorded
<1>2. Grown
  BY RecordGrows
<1>3. l \in Nat /\ disk'[f] \in Seq(Cell) /\ DOMAIN disk'[f] = 1 .. l + 1
  <2>1. disk'[f] \in Seq(Cell)
    BY <1>1, <1>2 DEF Grown
  <2>. QED
    BY <1>1, <2>1, DiskFacts, LenProperties
<1>. HIDE DEF f, l
<1>4. disk'[f][1].part = 0
  <2>1. CASE l = 0
    BY <1>1, <2>1
  <2>2. CASE l # 0
    <3>1. 1 \in 1 .. l /\ disk[f] # <<>>
      BY <1>1, <1>3, <2>2, DiskFacts DEF f, l
    <3>. QED
      BY <1>1, <3>1 DEF FilesInv
  <2>. QED
    BY <2>1, <2>2
<1>5. ASSUME NEW g \in Names, NEW k \in DOMAIN disk'[g], disk'[g][k].part = 0
      PROVE  k - 1 \in cuts'[g] \/ Unfinished(g, k)' \/ Complete(g, k)'
  <2>1. CASE g = f /\ k = l + 1
    BY <1>1, <2>1 DEF Unfinished
  <2>2. CASE g # f \/ k # l + 1
    <3>1. k \in DOMAIN disk[g] /\ disk[g][k].part = 0
      <4>1. CASE g = f
        <5>1. k \in 1 .. l
          BY <1>3, <2>2, <4>1
        <5>. QED
          BY <1>1, <1>5, <4>1, <5>1, DiskFacts DEF f, l
      <4>2. CASE g # f
        BY <1>1, <1>5, <4>2
      <4>. QED
        BY <4>1, <4>2
    <3>2. ~Unfinished(g, k)
      BY <1>1, NameFacts DEF Unfinished
    <3>3. k - 1 \in cuts[g] \/ Complete(g, k)
      BY <3>1, <3>2 DEF FilesInv
    <3>4. ASSUME Complete(g, k) PROVE Complete(g, k)'
      <4>1. k \in 1 .. Len(disk[g])
        BY <3>1, DiskFacts
      <4>2. g # f => Len(disk'[g]) = Len(disk[g])
        BY <1>1
      <4>3. g = f => disk'[g][Len(disk[g]) + 1].part = 0
        BY <1>1 DEF f, l
      <4>. QED
        BY <1>2, <3>4, <4>1, <4>2, <4>3, CompleteKept
    <3>. QED
      BY <1>1, <3>3, <3>4
  <2>. QED
    BY <2>1, <2>2
<1>6. ASSUME NEW g \in Names, disk'[g] # <<>> PROVE disk'[g][1].part = 0
  <2>1. CASE g = f
    BY <1>4, <2>1
  <2>2. CASE g # f
    BY <1>1, <1>6, <2>2 DEF FilesInv
  <2>. QED
    BY <2>1, <2>2
<1>7. /\ recImage' \in Images /\ records' > 0 /\ disk'[rec'] # <<>>
      /\ disk'[rec'][Len(disk'[rec'])] = [value |-> Len(recImage'), record |-> records', part |-> 0]
  <2>1. disk'[f] # <<>>
    <3>1. Len(<<>>) = 0 /\ l + 1 # 0
      BY <1>3, EmptySeq
    <3>. QED
      BY <1>1, <3>1
  <2>. QED
    BY <1>1, <2>1
<1>. QED
  BY <1>5, <1>6, <1>7 DEF FilesInv

LEMMA DataFiles ==
    ASSUME SenderTypes, FilesInv, Record, NEW n \in 0 .. Len(recImage), RecordData(n)
    PROVE  FilesInv'
<1>. DEFINE f == rec
            l == Len(disk[rec])
<1>1. /\ f \in Names /\ rec' = "idle" /\ recImage \in Images /\ n \in Nat /\ n <= Len(recImage)
      /\ disk[f] # <<>> /\ Len(disk'[f]) = l + n
      /\ \A g \in Names : g # f => disk'[g] = disk[g]
      /\ \A k \in 1 .. l : disk'[f][k] = disk[f][k]
      /\ \A k \in 1 .. n : disk'[f][l + k] = [value |-> recImage[k], record |-> records, part |-> k]
      /\ \A g \in Names : g # rec => cuts'[g] = cuts[g]
      /\ cuts'[f] = IF n < Len(recImage) THEN cuts[f] \cup {l - 1} ELSE cuts[f]
  BY DataRecorded
<1>2. Grown
  BY RecordGrows
<1>3. l \in Nat /\ l > 0 /\ disk'[f] \in Seq(Cell) /\ DOMAIN disk'[f] = 1 .. l + n /\ Len(recImage) \in Nat
  <2>1. disk'[f] \in Seq(Cell)
    BY <1>1, <1>2 DEF Grown
  <2>2. l \in Nat /\ l # 0
    BY <1>1, DiskFacts
  <2>3. DOMAIN disk'[f] = 1 .. l + n
    BY <1>1, <2>1, LenProperties
  <2>4. Len(recImage) \in Nat
    BY <1>1, ImageFacts
  <2>. QED
    BY <2>1, <2>2, <2>3, <2>4
<1>4. disk[f][l] = [value |-> Len(recImage), record |-> records, part |-> 0]
  BY <1>1, NameFacts DEF FilesInv
<1>. HIDE DEF f, l
<1>5. ASSUME NEW g \in Names, NEW k \in DOMAIN disk'[g], disk'[g][k].part = 0
      PROVE  k - 1 \in cuts'[g] \/ Complete(g, k)'
  <2>1. CASE g = f /\ k = l
    <3>1. CASE n < Len(recImage)
      BY <1>1, <2>1, <3>1
    <3>2. CASE n = Len(recImage)
      <4>1. disk'[f][l] = disk[f][l]
        BY <1>1, <1>3
      <4>2. disk'[f][l].value = Len(recImage) /\ disk'[f][l].record = records
        BY <1>4, <4>1
      <4>3. l + Len(recImage) <= Len(disk'[f]) /\ ~(l + Len(recImage) < Len(disk'[f]))
        BY <1>1, <1>3, <3>2
      <4>4. \A j \in 1 .. Len(recImage) :
               disk'[f][l + j] = [value |-> recImage[j], record |-> disk'[f][l].record, part |-> j]
        BY <1>1, <3>2, <4>2
      <4>. QED
        BY <1>1, <2>1, <4>2, <4>3, <4>4 DEF Complete
    <3>. QED
      BY <1>1, <1>3, <3>1, <3>2
  <2>2. CASE g = f /\ k # l
    <3>1. k \in 1 .. l
      <4>1. SUFFICES ASSUME k \in Nat, k > l, k <= l + n PROVE FALSE
        BY <1>3, <2>2
      <4>2. k - l \in 1 .. n /\ l + (k - l) = k /\ k - l # 0
        BY <1>1, <1>3, <4>1
      <4>3. ASSUME NEW j \in 1 .. n PROVE disk'[f][l + j].part = j
        <5>1. disk'[f][l + j] = [value |-> recImage[j], record |-> records, part |-> j]
          BY <1>1
        <5>. QED
          BY <5>1
      <4>4. disk'[f][l + (k - l)].part = k - l
        BY <4>2, <4>3
      <4>. QED
        BY <1>5, <2>2, <4>2, <4>4
    <3>2. k \in DOMAIN disk[g] /\ disk[g][k].part = 0 /\ k \in 1 .. Len(disk[g])
      BY <1>1, <1>5, <2>2, <3>1, DiskFacts DEF f, l
    <3>3. ~Unfinished(g, k)
      BY <2>2 DEF Unfinished, l, f
    <3>4. k - 1 \in cuts[g] \/ Complete(g, k)
      BY <3>2, <3>3 DEF FilesInv
    <3>5. disk[g][Len(disk[g])].part = 0
      BY <1>4, <2>2 DEF f, l
    <3>6. Complete(g, k) => Complete(g, k)'
      BY <1>2, <3>2, <3>5, CompleteKept
    <3>7. cuts[g] \subseteq cuts'[g]
      BY <1>2 DEF Grown
    <3>. QED
      BY <3>4, <3>6, <3>7
  <2>3. CASE g # f
    <3>1. k \in DOMAIN disk[g] /\ disk[g][k].part = 0 /\ k \in 1 .. Len(disk[g])
      BY <1>1, <1>5, <2>3, DiskFacts
    <3>2. ~Unfinished(g, k)
      BY <2>3 DEF Unfinished, f
    <3>3. k - 1 \in cuts[g] \/ Complete(g, k)
      BY <3>1, <3>2 DEF FilesInv
    <3>4. Len(disk'[g]) = Len(disk[g]) /\ cuts'[g] = cuts[g]
      BY <1>1, <2>3 DEF f
    <3>5. Complete(g, k) => Complete(g, k)'
      BY <1>2, <3>1, <3>4, CompleteKept
    <3>. QED
      BY <3>3, <3>4, <3>5
  <2>. QED
    BY <2>1, <2>2, <2>3
<1>6. ASSUME NEW g \in Names, disk'[g] # <<>> PROVE disk'[g][1].part = 0
  <2>1. CASE g = f
    <3>1. 1 \in 1 .. l /\ disk[g][1].part = 0
      BY <1>1, <1>3, <2>1 DEF FilesInv
    <3>. QED
      BY <1>1, <2>1, <3>1
  <2>2. CASE g # f
    BY <1>1, <1>6, <2>2 DEF FilesInv
  <2>. QED
    BY <2>1, <2>2
<1>. QED
  BY <1>1, <1>5, <1>6 DEF FilesInv

LEMMA KillFiles == ASSUME SenderTypes, FilesInv, Kill PROVE FilesInv'
<1>1. Grown /\ disk' = disk
  BY KillGrows
<1>2. rec' = "idle" /\ cuts' = IF rec = "idle" THEN cuts ELSE [cuts EXCEPT ![rec] = @ \cup {Len(disk[rec]) - 1}]
  BY DEF Kill
<1>3. ASSUME NEW f \in Names, NEW k \in DOMAIN disk[f], disk[f][k].part = 0
      PROVE  k - 1 \in cuts'[f] \/ Complete(f, k)'
  <2>1. k - 1 \in cuts[f] \/ Unfinished(f, k) \/ Complete(f, k)
    BY <1>3 DEF FilesInv
  <2>2. Complete(f, k) => Complete(f, k)'
    BY <1>1 DEF Complete
  <2>3. cuts[f] \subseteq cuts'[f]
    BY <1>1 DEF Grown
  <2>4. Unfinished(f, k) => k - 1 \in cuts'[f]
    BY <1>2, NameFacts DEF Unfinished, SenderTypes
  <2>. QED
    BY <2>1, <2>2, <2>3, <2>4
<1>. QED
  BY <1>1, <1>2, <1>3 DEF FilesInv

LEMMA NextFiles == SenderTypes /\ FilesInv /\ [Next]_vars => FilesInv'
<1>. SUFFICES ASSUME SenderTypes, FilesInv, [Next]_vars PROVE FilesInv'
  OBVIOUS
<1>1. CASE Record
  BY <1>1, SizeFiles, DataFiles DEF Record
<1>2. CASE UNCHANGED recVars
  BY <1>2 DEF FilesInv, Unfinished, Complete, recVars
<1>. QED
  BY <1>1, <1>2, KillFiles DEF Next, Gui, onTimeout, LeaveLoop, vars
-----------------------------------------------------------------------------
(* The place of the playback *)

LEMMA InitPlace == Init => PlaceInv
  BY DEF Init, PlaceInv, StartInv, OpenInv, Open, ReadInv, PostInv

(* A place that is behind an incomplete record, or at a size, is so when more is written. *)
LEMMA PlaceKept ==
    ASSUME SenderTypes, Grown, NEW f \in Names, NEW at \in Int
    PROVE  /\ Broken(f, at) => Broken(f, at)'
           /\ 0 <= at /\ at < Len(disk[f]) /\ SizeAt(f, at) => SizeAt(f, at)'
<1>1. Broken(f, at) => Broken(f, at)'
  BY DEF Broken, Grown
<1>2. ASSUME 0 <= at, at < Len(disk[f]), disk[f][at + 1].part = 0 PROVE disk'[f][at + 1].part = 0
  <2>1. at + 1 \in 1 .. Len(disk[f])
    BY <1>2, DiskFacts
  <2>. QED
    BY <1>2, <2>1 DEF Grown
<1>. QED
  BY <1>1, <1>2 DEF SizeAt

(* A place further on is behind an incomplete record too. *)
LEMMA BrokenFurther ==
    ASSUME SenderTypes, NEW f \in Names, NEW at \in Int, NEW to \in Int, at <= to, Broken(f, at)
    PROVE  Broken(f, to)
<1>1. PICK c \in cuts[f] : c <= at
  BY DEF Broken
<1>2. c \in Int
  BY DiskFacts
<1>. QED
  BY <1>1, <1>2 DEF Broken

(* A size that is not behind an incomplete record is the last cell, or its image is there. *)
LEMMA RecordAt ==
    ASSUME SenderTypes, FilesInv, NEW f \in Names, NEW at \in Nat, at < Len(disk[f]),
           SizeAt(f, at), ~Broken(f, at)
    PROVE  at + 1 = Len(disk[f]) \/ Complete(f, at + 1)
<1>1. at + 1 \in DOMAIN disk[f] /\ disk[f][at + 1].part = 0
  BY DiskFacts DEF SizeAt
<1>2. at + 1 - 1 = at /\ at <= at
  OBVIOUS
<1>3. at \notin cuts[f]
  BY <1>2 DEF Broken
<1>. QED
  BY <1>1, <1>2, <1>3 DEF FilesInv, Unfinished

LEMMA RecordPlace == ASSUME SenderTypes, FilesInv, PlaceInv, Record PROVE PlaceInv'
<1>1. Grown /\ UNCHANGED <<fileVars, timerVars, userVars, m_mutex, gui, plays>>
  BY RecordGrows
<1>2. UNCHANGED <<m_file, pos, timer, data, tick, m_fileName, m_mutex, gui, plays>>
  BY <1>1 DEF fileVars, timerVars, userVars
<1>3. StartInv'
  <2>. SUFFICES ASSUME gui = "start" PROVE disk'[m_fileName] # <<>> /\ m_fileName # NoName
    BY <1>2 DEF StartInv
  <2>1. m_fileName # NoName /\ disk[m_fileName] # <<>> /\ m_fileName \in Names
    BY DEF PlaceInv, StartInv, SenderTypes, TypeOK
  <2>2. Len(disk[m_fileName]) \in Nat /\ Len(disk[m_fileName]) # 0 /\ Len(<<>>) = 0
    BY <2>1, DiskFacts
  <2>3. Len(disk[m_fileName]) <= Len(disk'[m_fileName]) /\ Len(disk'[m_fileName]) \in Nat
    BY <1>1, <2>1, LenProperties DEF Grown
  <2>4. Len(disk'[m_fileName]) # 0
    BY <2>2, <2>3
  <2>. QED
    BY <2>1, <2>2, <2>4
<1>4. OpenInv'
  <2>. SUFFICES ASSUME Open PROVE pos < Len(disk'[m_file]) /\ SizeAt(m_file, pos)'
    BY <1>2 DEF OpenInv, Open
  <2>1. m_file \in Names /\ pos \in Nat
    BY ContentFacts DEF Open
  <2>2. pos < Len(disk[m_file]) /\ SizeAt(m_file, pos)
    BY DEF PlaceInv, OpenInv
  <2>3. Len(disk[m_file]) \in Nat /\ Len(disk[m_file]) <= Len(disk'[m_file]) /\ Len(disk'[m_file]) \in Nat
    BY <1>1, <2>1, DiskFacts, LenProperties DEF Grown
  <2>4. SizeAt(m_file, pos)'
    BY <1>1, <1>2, <2>1, <2>2, PlaceKept
  <2>. QED
    BY <2>1, <2>2, <2>3, <2>4
<1>5. ReadInv'
  <2>1. CASE timer \in {"read", "relock"} /\ m_file # NoName
    <3>1. m_file \in Names /\ data.at \in Nat /\ pos <= Len(disk[m_file]) /\ Len(disk[m_file]) \in Nat
      BY <2>1, ContentFacts, DataFacts
    <3>2. pos = data.at + 1 /\ data.size = disk[m_file][pos].value /\ SizeAt(m_file, data.at)
      BY <2>1 DEF PlaceInv, ReadInv
    <3>3. pos \in 1 .. Len(disk[m_file]) /\ data.at < Len(disk[m_file])
      BY <3>1, <3>2
    <3>4. disk'[m_file][pos] = disk[m_file][pos]
      BY <1>1, <3>1, <3>3 DEF Grown
    <3>5. SizeAt(m_file, data.at)'
      BY <1>1, <1>2, <3>1, <3>2, <3>3, PlaceKept
    <3>. QED
      BY <1>2, <2>1, <3>2, <3>4, <3>5 DEF PlaceInv, ReadInv
  <2>2. CASE ~(timer \in {"read", "relock"} /\ m_file # NoName)
    BY <1>2, <2>2 DEF PlaceInv, ReadInv
  <2>. QED
    BY <2>1, <2>2
<1>6. PostInv'
  <2>. SUFFICES ASSUME timer = "post" PROVE PostInv'
    BY <1>2 DEF PostInv
  <2>1. data.at \in Int /\ pos - 1 \in Int
    BY ContentFacts, DataFacts
  <2>2. data.cells # <<>> =>
           data.file \in Names /\ (Broken(data.file, data.at)' \/ WholeImage(data.cells))
    BY <1>1, <1>2, <2>1, PlaceKept DEF PlaceInv, PostInv
  <2>3. data.cells = <<>> /\ m_file # NoName /\ tick = plays => Broken(m_file, pos - 1)'
    BY <1>1, <1>2, <2>1, PlaceKept, ContentFacts DEF PlaceInv, PostInv
  <2>4. WholeImage(data.cells) => WholeImage(data.cells)'
    BY <1>2 DEF WholeImage
  <2>. QED
    BY <1>2, <2>2, <2>3, <2>4 DEF PostInv
<1>. QED
  BY <1>3, <1>4, <1>5, <1>6 DEF PlaceInv

LEMMA GuiPlace == ASSUME SenderTypes, FilesInv, PlaceInv, Gui(User) \/ Gui(GuiWaits) PROVE PlaceInv'
<1>1. UNCHANGED <<disk, cuts, timer, data, tick, m_mutex>>
  BY DEF Gui, recVars, timerVars
<1>2. ASSUME User PROVE PlaceInv'
  <2>1. UNCHANGED <<m_file, pos, plays>>
    BY <1>2 DEF User, SetFilename, SetRecord, CallStartPlay, CallStopPlay, Close, fileVars
  <2>2. StartInv'
    BY <1>1, <1>2 DEF User, SetFilename, SetRecord, CallStartPlay, CallStopPlay, Close, userVars, StartInv
  <2>3. OpenInv' /\ ReadInv' /\ PostInv'
    BY <1>1, <2>1 DEF PlaceInv, OpenInv, Open, ReadInv, PostInv, SizeAt, Broken, WholeImage
  <2>. QED
    BY <2>2, <2>3 DEF PlaceInv
<1>3. ASSUME StartPlay PROVE PlaceInv'
  <2>1. /\ gui = "start" /\ gui' = "idle" /\ m_mutex = "free" /\ m_file' = m_fileName /\ pos' = 0
        /\ plays' = plays + 1
    BY <1>3 DEF StartPlay
  <2>2. m_fileName \in Names /\ disk[m_fileName] # <<>>
    BY <2>1 DEF PlaceInv, StartInv, SenderTypes, TypeOK
  <2>3. timer \notin {"read", "relock"}
    BY <2>1 DEF PlaceInv, ReadInv
  <2>4. pos' < Len(disk'[m_file']) /\ SizeAt(m_file, pos)'
    <3>1. Len(disk[m_fileName]) \in Nat /\ Len(disk[m_fileName]) # 0
      BY <2>2, DiskFacts
    <3>2. disk[m_fileName][0 + 1].part = 0
      BY <2>2 DEF FilesInv
    <3>. QED
      BY <1>1, <2>1, <3>1, <3>2 DEF SizeAt
  <2>5. tick' # plays'
    BY <1>1, <2>1, PlayFacts DEF SenderTypes
  <2>6. timer = "post" /\ data.cells # <<>> =>
           data.file \in Names /\ (Broken(data.file, data.at)' \/ WholeImage(data.cells)')
    BY <1>1 DEF PlaceInv, PostInv, Broken, WholeImage
  <2>. QED
    BY <1>1, <2>1, <2>3, <2>4, <2>5, <2>6 DEF PlaceInv, StartInv, OpenInv, ReadInv, PostInv
<1>4. ASSUME StopPlay PROVE PlaceInv'
  <2>1. gui' = "idle" /\ m_mutex = "free" /\ m_file' = NoName /\ timer' \notin {"read", "relock"}
    BY <1>1, <1>4 DEF StopPlay, PlaceInv, ReadInv
  <2>2. PostInv'
    BY <1>1, <2>1 DEF PlaceInv, PostInv, Broken, WholeImage
  <2>. QED
    BY <1>1, <2>1, <2>2 DEF PlaceInv, StartInv, OpenInv, Open, ReadInv
<1>5. ASSUME Closed PROVE PlaceInv'
  <2>1. UNCHANGED <<m_file, pos, plays>> /\ gui' = "closed"
    BY <1>5 DEF Closed, fileVars
  <2>. QED
    BY <1>1, <2>1
    DEF PlaceInv, StartInv, OpenInv, Open, ReadInv, PostInv, SizeAt, Broken, WholeImage
<1>. QED
  BY <1>2, <1>3, <1>4, <1>5 DEF Gui, GuiWaits

LEMMA ReadSizePlace == ASSUME SenderTypes, FilesInv, PlaceInv, ReadSize, onTimeout PROVE PlaceInv'
<1>1. UNCHANGED <<disk, cuts, m_fileName, gui, plays, m_file, tick>> /\ timer = "lock" /\ m_mutex' = "timer"
  BY DEF onTimeout, recVars, userVars, ReadSize
<1>2. CASE Left > 0
  <2>1. /\ data' = [play |-> plays, file |-> m_file, at |-> pos, size |-> Content[pos + 1].value, cells |-> <<>>]
        /\ timer' = (IF Content[pos + 1].value > MAX_SIZE THEN "relock" ELSE "read") /\ pos' = pos + 1
    BY <1>2 DEF ReadSize
  <2>2. m_file # NoName /\ m_file \in Names /\ Content = disk[m_file] /\ pos \in Nat
    BY <1>2, ContentFacts
  <2>3. SizeAt(m_file, pos)
    BY <1>1, <2>2 DEF PlaceInv, OpenInv, Open
  <2>4. SizeAt(m_file, data.at)'
    BY <1>1, <2>1, <2>3 DEF SizeAt, Broken
  <2>5. timer' \in {"read", "relock"} /\ (timer' = "relock" => data'.size > MAX_SIZE)
    BY <2>1
  <2>6. ReadInv'
    BY <1>1, <2>1, <2>2, <2>4, <2>5 DEF ReadInv
  <2>. QED
    BY <1>1, <2>5, <2>6 DEF PlaceInv, StartInv, OpenInv, Open, PostInv
<1>3. CASE ~(Left > 0)
  <2>1. data' = Nothing /\ timer' = "read"
    BY <1>3 DEF ReadSize
  <2>2. m_file = NoName
    BY <1>1, <1>3, ContentFacts DEF PlaceInv, OpenInv, Open
  <2>. QED
    BY <1>1, <2>1, <2>2, NothingFacts DEF PlaceInv, StartInv, OpenInv, Open, ReadInv, PostInv
<1>. QED
  BY <1>2, <1>3

(* What is read behind a size: a whole image, unless the place is behind an incomplete record or *)
(* the image is not there yet; and where the next one is, unless the file ends.                    *)
LEMMA ImageRead ==
    ASSUME SenderTypes, FilesInv, PlaceInv, ReadData, m_file # NoName
    PROVE  /\ data'.file = m_file /\ data'.play = plays /\ data'.at = data.at
           /\ m_file' # NoName => /\ m_file' = m_file /\ pos' < Len(disk[m_file])
                                  /\ pos' = data.at + 1 + Len(data'.cells)
                                  /\ SizeAt(m_file, pos')
           /\ data'.cells # <<>> => Broken(m_file, data.at) \/ WholeImage(data'.cells)
           /\ data'.cells = <<>> => m_file' = NoName \/ (Broken(m_file, data.at) /\ pos' - 1 = data.at)
<1>1. /\ timer = "read" /\ m_file \in Names /\ Content = disk[m_file] /\ data.at \in Nat
      /\ data.file = m_file /\ data.play = plays /\ pos = data.at + 1
      /\ data.size = disk[m_file][pos].value /\ SizeAt(m_file, data.at)
  BY ContentFacts, DataFacts DEF ReadData, PlaceInv, ReadInv
<1>2. PICK n \in Nat :
         /\ n <= data.size /\ n <= Left /\ (n = data.size \/ n = Left) /\ pos + n <= Len(Content)
         /\ data' = [data EXCEPT !.cells = SubSeq(Content, pos + 1, pos + n)]
         /\ data'.cells \in Seq(Cell) /\ Len(data'.cells) = n
         /\ (data'.cells = <<>> <=> n = 0)
         /\ \A k \in 1 .. n : data'.cells[k] = Content[pos + k]
         /\ IF n = Left THEN m_file' = NoName /\ pos' = 0 ELSE pos' = pos + n /\ m_file' = m_file
  BY ReadDataFacts
<1>3. data'.file = m_file /\ data'.play = plays /\ data'.at = data.at
  BY <1>1, <1>2, DataFacts
<1>4. Len(disk[m_file]) \in Nat /\ Left = Len(disk[m_file]) - pos /\ Left \in Nat /\ pos \in Nat
  BY <1>1, ContentFacts
<1>5. m_file' # NoName => /\ m_file' = m_file /\ n # Left /\ pos' = data.at + 1 + Len(data'.cells)
                          /\ pos' = pos + n /\ pos' < Len(disk[m_file])
  <2>. SUFFICES ASSUME m_file' # NoName
                PROVE  /\ m_file' = m_file /\ n # Left /\ pos' = data.at + 1 + Len(data'.cells)
                       /\ pos' = pos + n /\ pos' < Len(disk[m_file])
    OBVIOUS
  <2>1. m_file' = m_file /\ n # Left /\ pos' = pos + n /\ n <= Left /\ Len(data'.cells) = n
    BY <1>2
  <2>2. pos + n < Len(disk[m_file]) /\ pos + n = data.at + 1 + n
    BY <1>1, <1>4, <2>1
  <2>. QED
    BY <2>1, <2>2
<1>6. CASE Broken(m_file, data.at)
  <2>1. m_file' # NoName => pos' \in Nat /\ data.at <= pos'
    <3>1. pos + n \in Nat /\ data.at <= pos + n
      BY <1>1
    <3>. QED
      BY <1>5, <3>1
  <2>2. m_file' # NoName => SizeAt(m_file, pos')
    BY <1>1, <1>6, <2>1, BrokenFurther DEF SizeAt
  <2>3. data'.cells = <<>> => m_file' = NoName \/ pos' - 1 = data.at
    BY <1>1, <1>2, <1>5
  <2>. QED
    BY <1>3, <1>5, <1>6, <2>2, <2>3
<1>7. CASE ~Broken(m_file, data.at) /\ data.at + 1 = Len(disk[m_file])
  <2>1. n = 0 /\ Left = 0
    BY <1>1, <1>2, <1>4, <1>7
  <2>. QED
    BY <1>2, <1>3, <2>1
<1>8. CASE ~Broken(m_file, data.at) /\ Complete(m_file, data.at + 1)
  <2>1. PICK image \in Images :
           /\ disk[m_file][pos].value = Len(image) /\ pos + Len(image) <= Len(disk[m_file])
           /\ \A j \in 1 .. Len(image) :
                  disk[m_file][pos + j] = [value |-> image[j], record |-> disk[m_file][pos].record, part |-> j]
           /\ pos + Len(image) < Len(disk[m_file]) => disk[m_file][pos + Len(image) + 1].part = 0
    BY <1>1, <1>8 DEF Complete
  <2>2. Len(image) \in Nat /\ Len(image) > 0 /\ image \in Seq(Nat) /\ DOMAIN image = 1 .. Len(image)
    BY ImageFacts, LenProperties
  <2>3. n = Len(image)
    <3>1. data.size = Len(image) /\ data.size <= Left
      BY <1>1, <1>4, <2>1, <2>2
    <3>2. n \in Nat /\ n <= data.size /\ (n = data.size \/ n = Left)
      BY <1>2
    <3>3. n \in Nat /\ n <= Len(image) /\ (n = Len(image) \/ n = Left) /\ Len(image) <= Left
      BY <3>1, <3>2
    <3>4. n = Left => Len(image) <= n
      BY <3>3
    <3>5. n \in Nat /\ n <= Len(image) /\ (n = Len(image) \/ Len(image) <= n)
      BY <3>3, <3>4
    <3>6. Len(image) \in Nat
      BY <2>2
    <3>. QED
      BY <3>5, <3>6
  <2>4. m_file' # NoName => SizeAt(m_file, pos')
    BY <1>2, <1>5, <2>1, <2>3 DEF SizeAt
  <2>5. data'.cells # <<>>
    BY <1>2, <2>2, <2>3
  <2>6. WholeImage(data'.cells)
    <3>. DEFINE cells == data'.cells
    <3>1. DOMAIN cells = 1 .. Len(image)
      BY <1>2, <2>3, LenProperties
    <3>2. ASSUME NEW k \in 1 .. Len(image)
          PROVE  cells[k].value = image[k] /\ cells[k].part = k /\ cells[k].record = disk[m_file][pos].record
      <4>1. cells[k] = [value |-> image[k], record |-> disk[m_file][pos].record, part |-> k]
        BY <1>1, <1>2, <2>1, <2>3
      <4>. QED
        BY <4>1
    <3>. HIDE DEF cells
    <3>3. [k \in DOMAIN cells |-> cells[k].value] = image
      BY <2>2, <3>1, <3>2
    <3>4. 1 \in 1 .. Len(image)
      BY <2>2
    <3>5. \A k \in DOMAIN cells : cells[k].part = k /\ cells[k].record = cells[1].record
      BY <3>1, <3>2, <3>4
    <3>. QED
      BY <3>3, <3>5 DEF WholeImage, cells
  <2>. QED
    BY <1>3, <1>5, <2>4, <2>5, <2>6
<1>9. data.at < Len(disk[m_file])
  BY <1>1, <1>4
<1>. QED
  BY <1>1, <1>6, <1>7, <1>8, <1>9, RecordAt

LEMMA ReadDataPlace == ASSUME SenderTypes, FilesInv, PlaceInv, ReadData, onTimeout PROVE PlaceInv'
<1>1. /\ UNCHANGED <<disk, cuts, m_fileName, gui, plays, tick>> /\ timer = "read" /\ timer' = "post"
      /\ m_mutex' = "free"
  BY DEF onTimeout, recVars, userVars, ReadData
<1>2. StartInv' /\ ReadInv'
  BY <1>1 DEF PlaceInv, StartInv, ReadInv
<1>3. CASE m_file = NoName
  <2>1. data.size = 0 /\ Left \in Nat /\ pos = 0 /\ Left = 0
    BY <1>1, <1>3, NothingFacts, ContentFacts DEF PlaceInv, ReadInv
  <2>2. m_file' = NoName /\ data'.cells = <<>>
    BY <2>1, ReadDataFacts
  <2>. QED
    BY <1>1, <1>2, <2>2 DEF PlaceInv, OpenInv, Open, PostInv
<1>4. CASE m_file # NoName
  <2>1. /\ data'.file = m_file /\ data'.at = data.at
        /\ m_file' # NoName => /\ m_file' = m_file /\ pos' < Len(disk[m_file]) /\ SizeAt(m_file, pos')
        /\ data'.cells # <<>> => Broken(m_file, data.at) \/ WholeImage(data'.cells)
        /\ data'.cells = <<>> => m_file' = NoName \/ (Broken(m_file, data.at) /\ pos' - 1 = data.at)
    BY <1>4, ImageRead
  <2>2. OpenInv'
    <3>1. m_file' # NoName => SizeAt(m_file, pos)'
      BY <1>1, <2>1 DEF SizeAt, Broken
    <3>. QED
      BY <1>1, <2>1, <3>1 DEF OpenInv, Open
  <2>3. PostInv'
    <3>1. m_file \in Names
      BY <1>4, ContentFacts
    <3>2. Broken(m_file, data.at) => Broken(data.file, data.at)'
      BY <1>1, <2>1 DEF Broken
    <3>3. WholeImage(data'.cells) => WholeImage(data.cells)'
      BY DEF WholeImage
    <3>4. m_file' # NoName /\ Broken(m_file, data.at) /\ pos' - 1 = data.at => Broken(m_file, pos - 1)'
      BY <1>1, <2>1 DEF Broken
    <3>. QED
      BY <1>1, <2>1, <3>1, <3>2, <3>3, <3>4 DEF PostInv
  <2>. QED
    BY <1>2, <2>2, <2>3 DEF PlaceInv
<1>. QED
  BY <1>3, <1>4

LEMMA NextPlace == SenderTypes /\ FilesInv /\ PlaceInv /\ [Next]_vars => PlaceInv'
<1>. SUFFICES ASSUME SenderTypes, FilesInv, PlaceInv, [Next]_vars PROVE PlaceInv'
  OBVIOUS
<1>1. ASSUME onTimeout PROVE PlaceInv'
  <2>1. UNCHANGED <<disk, cuts, m_fileName, gui, plays>>
    BY <1>1 DEF onTimeout, recVars, userVars
  <2>2. CASE TimerFires
    <3>1. UNCHANGED <<m_file, pos, data, m_mutex>> /\ timer = "idle" /\ timer' = "lock"
      BY <2>2 DEF TimerFires, fileVars
    <3>. QED
      BY <2>1, <3>1 DEF PlaceInv, StartInv, OpenInv, Open, ReadInv, PostInv, SizeAt, Broken
  <2>3. CASE Post
    <3>1. UNCHANGED <<m_file, pos, m_mutex>> /\ timer = "post" /\ timer' = "idle" /\ data.cells # <<>>
      BY <2>3 DEF Post, fileVars
    <3>. QED
      BY <2>1, <3>1 DEF PlaceInv, StartInv, OpenInv, Open, ReadInv, PostInv, SizeAt, Broken
  <2>4. CASE CloseEmpty
    <3>1. m_file' = NoName /\ m_mutex' = "free" /\ timer' = "idle"
      BY <2>4 DEF CloseEmpty, Unlock
    <3>. QED
      BY <2>1, <3>1 DEF PlaceInv, StartInv, OpenInv, Open, ReadInv, PostInv
  <2>. QED
    BY <1>1, <2>2, <2>3, <2>4, ReadSizePlace, ReadDataPlace DEF onTimeout
<1>2. ASSUME LeaveLoop PROVE PlaceInv'
  <2>1. UNCHANGED <<disk, cuts, m_fileName, gui, plays, m_mutex>> /\ timer = "idle" /\ timer' = "stopped"
    BY <1>2 DEF LeaveLoop, recVars, userVars
  <2>. QED
    BY <2>1 DEF PlaceInv, StartInv, OpenInv, Open, ReadInv, PostInv
<1>3. ASSUME Kill PROVE PlaceInv'
  <2>1. m_file' = NoName /\ m_mutex' = "free" /\ timer' = "idle" /\ gui' = "idle"
    BY <1>3 DEF Kill
  <2>. QED
    BY <2>1 DEF PlaceInv, StartInv, OpenInv, Open, ReadInv, PostInv
<1>4. ASSUME UNCHANGED vars PROVE PlaceInv'
  <2>1. UNCHANGED <<disk, cuts, m_fileName, gui, plays, m_mutex, m_file, pos, timer, data, tick>>
    BY <1>4 DEF vars, recVars, fileVars, timerVars, userVars
  <2>. QED
    BY <2>1 DEF PlaceInv, StartInv, OpenInv, Open, ReadInv, PostInv, SizeAt, Broken, WholeImage
<1>. QED
  BY <1>1, <1>2, <1>3, <1>4, RecordPlace, GuiPlace DEF Next
-----------------------------------------------------------------------------
(* What was posted *)

LEMMA InitPlay == Init => PostedInv /\ FollowInv
<1>. SUFFICES ASSUME Init PROVE PostedInv /\ FollowInv
  OBVIOUS
<1>1. DOMAIN posted = {} /\ timer = "idle" /\ m_file = NoName
  BY DEF Init
<1>. QED
  BY <1>1 DEF PostedInv, PlaysRecords, FollowInv, Open

LEMMA PostedFacts ==
    ASSUME SenderTypes
    PROVE  /\ posted \in Seq(DataType) /\ Len(posted) \in Nat /\ DOMAIN posted = 1 .. Len(posted)
           /\ (posted = <<>> <=> Len(posted) = 0)
           /\ \A i \in DOMAIN posted : posted[i].play \in Nat /\ posted[i].play <= plays /\ posted[i].at \in Nat
<1>1. posted \in Seq(DataType)
  BY DEF SenderTypes, TypeOK
<1>2. \A i \in DOMAIN posted : posted[i] \in DataType
  BY <1>1, LenProperties
<1>3. \A d \in DataType : d.play \in Nat /\ d.at \in Nat
  BY BoundFacts DEF DataType
<1>. QED
  BY <1>1, <1>2, <1>3, LenProperties, EmptySeq DEF SenderTypes

(* A step that posts nothing and writes at most behind what is in the files. *)
LEMMA PostedKept ==
    ASSUME SenderTypes, PostedInv, Grown \/ UNCHANGED cuts, posted' = posted
    PROVE  PlaysRecords' /\ \A i \in DOMAIN posted' : posted'[i].file \in Names
<1>1. ASSUME NEW i \in DOMAIN posted, Broken(posted[i].file, posted[i].at)
      PROVE  Broken(posted[i].file, posted[i].at)'
  <2>1. posted[i].file \in Names
    BY DEF PostedInv
  <2>2. cuts[posted[i].file] \subseteq cuts'[posted[i].file]
    BY <2>1 DEF Grown
  <2>. QED
    BY <1>1, <2>2 DEF Broken
<1>2. ASSUME NEW i \in DOMAIN posted, WholeImage(posted[i].cells) PROVE WholeImage(posted[i].cells)'
  BY <1>2 DEF WholeImage
<1>3. \A i \in DOMAIN posted :
         \/ Broken(posted[i].file, posted[i].at)
         \/ /\ WholeImage(posted[i].cells)
            /\ posted[i].at = IF i > 1 /\ posted[i - 1].play = posted[i].play
                              THEN posted[i - 1].at + 1 + Len(posted[i - 1].cells)
                              ELSE 0
  BY DEF PostedInv, PlaysRecords
<1>4. PlaysRecords'
  BY <1>1, <1>2, <1>3 DEF PlaysRecords
<1>. QED
  BY <1>4 DEF PostedInv

LEMMA RecordPosted == ASSUME SenderTypes, FilesInv, PostedInv, FollowInv, Record PROVE PostedInv' /\ FollowInv'
<1>1. Grown /\ UNCHANGED <<m_file, pos, timer, data, m_sender, plays, posted>>
  BY RecordGrows DEF fileVars, timerVars, userVars
<1>2. PostedInv'
  <2>1. PlaysRecords' /\ \A i \in DOMAIN posted' : posted'[i].file \in Names
    BY <1>1, PostedKept
  <2>. QED
    BY <1>1, <2>1 DEF PostedInv
<1>. QED
  BY <1>1, <1>2 DEF FollowInv, Open, Following

LEMMA GuiPosted ==
    ASSUME SenderTypes, PlaceInv, PostedInv, FollowInv, Gui(User) \/ Gui(GuiWaits)
    PROVE  PostedInv' /\ FollowInv'
<1>1. UNCHANGED <<disk, cuts, timer, data, posted, m_mutex>>
  BY DEF Gui, recVars, timerVars
<1>2. PostedInv'
  <2>1. PlaysRecords' /\ \A i \in DOMAIN posted' : posted'[i].file \in Names
    BY <1>1, PostedKept
  <2>. QED
    BY <1>1, <2>1 DEF PostedInv
<1>3. ASSUME User \/ Closed PROVE FollowInv'
  <2>1. UNCHANGED <<m_file, pos, plays>> /\ (m_sender' => m_sender)
    BY <1>3 DEF User, SetFilename, SetRecord, CallStartPlay, CallStopPlay, Close, Closed, fileVars, userVars
  <2>. QED
    BY <1>1, <2>1 DEF FollowInv, Open, Following
<1>4. ASSUME StartPlay PROVE FollowInv'
  <2>1. m_mutex = "free" /\ pos' = 0 /\ plays' = plays + 1 /\ m_sender' = m_sender
    BY <1>4 DEF StartPlay, userVars
  <2>2. timer \notin {"read", "relock"}
    BY <2>1 DEF PlaceInv, ReadInv
  <2>3. data.play # plays'
    BY <2>1, PlayFacts, DataFacts, BoundFacts DEF SenderTypes
  <2>4. posted # <<>> => posted[Len(posted)].play # plays'
    <3>1. posted # <<>> => Len(posted) \in DOMAIN posted
      BY PostedFacts
    <3>. QED
      BY <2>1, <3>1, PostedFacts, PlayFacts
  <2>5. Following(plays)' = 0
    BY <1>1, <2>4 DEF Following
  <2>6. Following(data.play)' = Following(data.play)
    BY <1>1 DEF Following
  <2>. QED
    BY <1>1, <2>1, <2>2, <2>3, <2>5, <2>6 DEF FollowInv
<1>5. ASSUME StopPlay PROVE FollowInv'
  <2>1. m_mutex = "free" /\ m_file' = NoName /\ plays' = plays /\ m_sender' = m_sender
    BY <1>5 DEF StopPlay, userVars
  <2>2. timer \notin {"read", "relock"}
    BY <2>1 DEF PlaceInv, ReadInv
  <2>. QED
    BY <1>1, <2>1, <2>2 DEF FollowInv, Open, Following
<1>. QED
  BY <1>2, <1>3, <1>4, <1>5 DEF Gui, GuiWaits

LEMMA PostPosted ==
    ASSUME SenderTypes, PlaceInv, PostedInv, FollowInv, Post, onTimeout
    PROVE  PostedInv' /\ FollowInv'
<1>1. /\ timer = "post" /\ timer' = "idle" /\ data.cells # <<>> /\ m_file' = m_file /\ pos' = pos
      /\ UNCHANGED <<disk, cuts, m_sender, plays>>
      /\ posted' = IF m_sender THEN Append(posted, data) ELSE posted
  BY DEF Post, onTimeout, fileVars, recVars, userVars
<1>2. CASE ~m_sender
  <2>1. PlaysRecords' /\ \A i \in DOMAIN posted' : posted'[i].file \in Names
    BY <1>1, <1>2, PostedKept
  <2>. QED
    BY <1>1, <1>2, <2>1 DEF PostedInv, FollowInv
<1>3. CASE m_sender
  <2>. DEFINE l == Len(posted)
  <2>1. data \in DataType /\ posted' = Append(posted, data)
    BY <1>1, <1>3 DEF SenderTypes, TypeOK
  <2>2. /\ l \in Nat /\ DOMAIN posted = 1 .. l /\ DOMAIN posted' = 1 .. l + 1 /\ Len(posted') = l + 1
        /\ \A i \in 1 .. l : posted'[i] = posted[i]
        /\ posted'[l + 1] = data
        /\ posted = <<>> <=> l = 0
    BY <2>1, PostedFacts, AppendProperties
  <2>3. data.file \in Names /\ (Broken(data.file, data.at) \/ WholeImage(data.cells))
    BY <1>1 DEF PlaceInv, PostInv
  <2>4. data.at = Following(data.play)
    BY <1>1, <1>3 DEF FollowInv
  <2>. HIDE DEF l
  <2>5. data.at = IF l + 1 > 1 /\ posted'[l + 1 - 1].play = data.play
                  THEN posted'[l + 1 - 1].at + 1 + Len(posted'[l + 1 - 1].cells) ELSE 0
    <3>1. CASE l = 0
      BY <2>2, <2>4, <3>1 DEF Following
    <3>2. CASE l # 0
      <4>1. l + 1 - 1 = l /\ l \in 1 .. l /\ l + 1 > 1 /\ posted # <<>>
        BY <2>2, <3>2
      <4>2. posted'[l + 1 - 1] = posted[l]
        BY <2>2, <4>1
      <4>3. data.at = IF posted[l].play = data.play THEN posted[l].at + 1 + Len(posted[l].cells) ELSE 0
        BY <2>4, <4>1 DEF Following, l
      <4>. QED
        BY <4>1, <4>2, <4>3
    <3>. QED
      BY <3>1, <3>2
  <2>6. ASSUME NEW i \in DOMAIN posted'
        PROVE  \/ Broken(posted[i].file, posted[i].at)'
               \/ /\ WholeImage(posted[i].cells)'
                  /\ posted'[i].at = IF i > 1 /\ posted'[i - 1].play = posted'[i].play
                                     THEN posted'[i - 1].at + 1 + Len(posted'[i - 1].cells)
                                     ELSE 0
    <3>1. CASE i = l + 1
      <4>1. posted'[i] = data
        BY <2>2, <3>1
      <4>2. Broken(data.file, data.at) => Broken(posted[i].file, posted[i].at)'
        BY <1>1, <4>1 DEF Broken
      <4>3. WholeImage(data.cells) => WholeImage(posted[i].cells)'
        BY <4>1 DEF WholeImage
      <4>4. posted'[i].at = IF i > 1 /\ posted'[i - 1].play = posted'[i].play
                            THEN posted'[i - 1].at + 1 + Len(posted'[i - 1].cells)
                            ELSE 0
        <5>1. i > 1 <=> l + 1 > 1
          BY <3>1
        <5>2. i - 1 = l + 1 - 1
          BY <2>2, <3>1
        <5>. QED
          BY <2>5, <4>1, <5>1, <5>2
      <4>. QED
        BY <2>3, <4>2, <4>3, <4>4
    <3>2. CASE i \in 1 .. l
      <4>1. posted'[i] = posted[i]
        BY <2>2, <3>2
      <4>2. i > 1 => posted'[i - 1] = posted[i - 1]
        <5>1. i > 1 => i - 1 \in 1 .. l
          BY <2>2, <3>2
        <5>. QED
          BY <2>2, <5>1
      <4>3. \/ Broken(posted[i].file, posted[i].at)
            \/ /\ WholeImage(posted[i].cells)
               /\ posted[i].at = IF i > 1 /\ posted[i - 1].play = posted[i].play
                                 THEN posted[i - 1].at + 1 + Len(posted[i - 1].cells)
                                 ELSE 0
        BY <2>2, <3>2 DEF PostedInv, PlaysRecords
      <4>4. Broken(posted[i].file, posted[i].at) => Broken(posted[i].file, posted[i].at)'
        BY <1>1, <4>1 DEF Broken
      <4>5. WholeImage(posted[i].cells) => WholeImage(posted[i].cells)'
        BY <4>1 DEF WholeImage
      <4>. QED
        BY <4>1, <4>2, <4>3, <4>4, <4>5
    <3>. QED
      BY <2>2, <3>1, <3>2
  <2>7. \A i \in DOMAIN posted' : posted'[i].file \in Names
    BY <2>2, <2>3 DEF PostedInv
  <2>8. PostedInv'
    BY <1>1, <2>6, <2>7 DEF PostedInv, PlaysRecords
  <2>9. Following(plays)' = IF data.play = plays THEN data.at + 1 + Len(data.cells) ELSE 0
    <3>1. posted' # <<>>
      BY <2>1
    <3>. QED
      BY <1>1, <2>2, <3>1 DEF Following
  <2>10. data.play # plays => Following(plays) = 0
    <3>1. CASE l = 0
      BY <2>2, <3>1 DEF Following
    <3>2. CASE l # 0
      <4>1. l \in DOMAIN posted /\ posted[l].play \in Nat
        BY <2>2, <3>2, PostedFacts
      <4>2. posted[l].play <= data.play
        BY <1>1, <4>1 DEF PostedInv
      <4>3. data.play # plays => posted[l].play # plays
        BY <4>1, <4>2, DataFacts, PlayFacts, BoundFacts DEF SenderTypes
      <4>. QED
        BY <4>3 DEF Following, l
    <3>. QED
      BY <3>1, <3>2
  <2>11. m_file # NoName => pos = Following(plays)'
    BY <1>1, <1>3, <2>9, <2>10 DEF FollowInv, Open
  <2>. QED
    BY <1>1, <2>8, <2>11 DEF FollowInv, Open
<1>. QED
  BY <1>2, <1>3

LEMMA NextPosted ==
    SenderTypes /\ FilesInv /\ PlaceInv /\ PostedInv /\ FollowInv /\ [Next]_vars => PostedInv' /\ FollowInv'
<1>. SUFFICES ASSUME SenderTypes, FilesInv, PlaceInv, PostedInv, FollowInv, [Next]_vars
              PROVE  PostedInv' /\ FollowInv'
  OBVIOUS
<1>1. ASSUME posted' = posted, Grown \/ UNCHANGED cuts, timer' # "post" PROVE PostedInv'
  <2>1. PlaysRecords' /\ \A i \in DOMAIN posted' : posted'[i].file \in Names
    BY <1>1, PostedKept
  <2>. QED
    BY <1>1, <2>1 DEF PostedInv
<1>2. ASSUME onTimeout PROVE PostedInv' /\ FollowInv'
  <2>1. UNCHANGED <<disk, cuts, m_sender, plays>>
    BY <1>2 DEF onTimeout, recVars, userVars
  <2>2. CASE TimerFires
    <3>1. UNCHANGED <<m_file, pos, data, posted>> /\ timer = "idle" /\ timer' = "lock"
      BY <2>2 DEF TimerFires, fileVars
    <3>2. PostedInv'
      BY <1>1, <2>1, <3>1
    <3>. QED
      BY <2>1, <3>1, <3>2 DEF FollowInv, Open, Following
  <2>3. CASE ReadSize
    <3>1. /\ timer = "lock" /\ timer' \in {"read", "relock"} /\ UNCHANGED <<m_file, posted>>
          /\ Left > 0 => data'.at = pos
      BY <2>3 DEF ReadSize
    <3>2. PostedInv'
      BY <1>1, <2>1, <3>1
    <3>3. m_file # NoName => Left > 0
      BY <3>1, ContentFacts DEF PlaceInv, OpenInv, Open
    <3>4. m_sender /\ m_file # NoName => data'.at = Following(plays)
      BY <3>1, <3>3 DEF FollowInv, Open
    <3>. QED
      BY <2>1, <3>1, <3>2, <3>4 DEF FollowInv, Open, Following
  <2>4. CASE ReadData
    <3>1. timer = "read" /\ timer' = "post" /\ posted' = posted
      BY <2>4 DEF ReadData
    <3>2. m_file = NoName => data'.cells = <<>> /\ m_file' = NoName
      <4>1. m_file = NoName => data.size = 0 /\ Left = 0
        BY <3>1, NothingFacts, ContentFacts DEF PlaceInv, ReadInv
      <4>. QED
        BY <2>4, <4>1, ReadDataFacts
    <3>3. m_file # NoName =>
             /\ data'.play = plays /\ data'.at = data.at
             /\ m_file' # NoName => pos' = data.at + 1 + Len(data'.cells)
      BY <2>4, ImageRead
    <3>4. PlaysRecords' /\ \A i \in DOMAIN posted' : posted'[i].file \in Names
      BY <2>1, <3>1, PostedKept
    <3>5. PostedInv'
      BY <3>1, <3>2, <3>3, <3>4, PostedFacts DEF PostedInv
    <3>6. m_sender /\ m_file # NoName => data.at = Following(plays)
      BY <3>1 DEF FollowInv
    <3>7. Following(plays)' = Following(plays)
      BY <2>1, <3>1 DEF Following
    <3>8. m_file # NoName => Following(data.play)' = Following(plays)
      BY <2>1, <3>1, <3>3 DEF Following
    <3>. QED
      BY <2>1, <3>1, <3>2, <3>3, <3>5, <3>6, <3>7, <3>8 DEF FollowInv, Open
  <2>5. CASE Post
    BY <1>2, <2>5, PostPosted
  <2>6. CASE CloseEmpty
    <3>1. m_file' = NoName /\ timer' = "idle" /\ posted' = posted
      BY <2>6 DEF CloseEmpty
    <3>. QED
      BY <1>1, <2>1, <3>1 DEF FollowInv, Open
  <2>. QED
    BY <1>2, <2>2, <2>3, <2>4, <2>5, <2>6 DEF onTimeout
<1>3. ASSUME LeaveLoop PROVE PostedInv' /\ FollowInv'
  <2>1. UNCHANGED <<cuts, posted>> /\ timer' = "stopped"
    BY <1>3 DEF LeaveLoop, recVars
  <2>. QED
    BY <1>1, <2>1 DEF FollowInv, Open
<1>4. ASSUME Kill PROVE PostedInv' /\ FollowInv'
  <2>1. Grown /\ m_file' = NoName /\ timer' = "idle" /\ posted' = posted
    BY <1>4, KillGrows DEF Kill
  <2>. QED
    BY <1>1, <2>1 DEF FollowInv, Open
<1>5. ASSUME UNCHANGED vars PROVE PostedInv' /\ FollowInv'
  <2>1. UNCHANGED <<cuts, m_sender, plays, m_file, pos, timer, data, posted>>
    BY <1>5 DEF vars, recVars, fileVars, timerVars, userVars
  <2>2. PlaysRecords' /\ \A i \in DOMAIN posted' : posted'[i].file \in Names
    BY <2>1, PostedKept
  <2>3. PostedInv'
    BY <2>1, <2>2 DEF PostedInv
  <2>. QED
    BY <2>1, <2>3 DEF FollowInv, Open, Following
<1>. QED
  BY <1>2, <1>3, <1>4, <1>5, RecordPosted, GuiPosted DEF Next
-----------------------------------------------------------------------------
(* The theorems *)

SenderInv == SenderTypes /\ FilesInv /\ PlaceInv /\ PostedInv /\ FollowInv

LEMMA SenderInvariant == Spec => []SenderInv
<1>1. Init => SenderInv
  BY InitSender, InitFiles, InitPlace, InitPlay DEF SenderInv
<1>2. SenderInv /\ [Next]_vars => SenderInv'
  BY NextTypes, NextFiles, NextPlace, NextPosted DEF SenderInv
<1>. QED
  BY <1>1, <1>2, PTL DEF Spec

(* The types of TestSender, of the files and of what is posted. *)
THEOREM TestSenderTypes == Spec => []TypeOK
<1>1. SenderInv => TypeOK
  BY DEF SenderInv, SenderTypes
<1>. QED
  BY <1>1, SenderInvariant, PTL

(* Every image onTimeout posts is an image that tryParseData recorded, whole, and follows the one *)
(* posted before it in that playback, unless it was read behind a record that a short write or a   *)
(* kill cut; whatever is recorded into the file, started and stopped meanwhile.                     *)
THEOREM RecordsArePlayed == Spec => []PlaysRecords
<1>1. SenderInv => PlaysRecords
  BY DEF SenderInv, PostedInv
<1>. QED
  BY <1>1, SenderInvariant, PTL

(* onTimeout locks the mutex that it holds only when it has read a size behind a record that a *)
(* short write or a kill cut: in no order of startPlay, stopPlay, the ticks and the recording   *)
(* does it take part of an image for a size.                                                     *)
THEOREM OnlyBrokenFilesHang == Spec => []HangsOnlyOnBroken
<1>1. SenderInv => HangsOnlyOnBroken
  <2>. SUFFICES ASSUME SenderInv, timer = "relock" PROVE Broken(m_file, pos - 1)
    BY DEF HangsOnlyOnBroken
  <2>1. SenderTypes /\ FilesInv /\ ReadInv
    BY DEF SenderInv, PlaceInv
  <2>2. /\ m_file # NoName /\ data.size > MAX_SIZE /\ pos = data.at + 1
        /\ data.size = disk[m_file][pos].value /\ SizeAt(m_file, data.at)
    BY <2>1 DEF ReadInv
  <2>3. m_file \in Names /\ data.at \in Nat /\ pos <= Len(disk[m_file]) /\ Len(disk[m_file]) \in Nat
    BY <2>1, <2>2, ContentFacts, DataFacts
  <2>4. data.at < Len(disk[m_file]) /\ pos - 1 = data.at
    BY <2>2, <2>3
  <2>. SUFFICES ASSUME ~Broken(m_file, data.at) PROVE FALSE
    BY <2>4
  <2>5. disk[m_file][pos].part = 0
    BY <2>2 DEF SizeAt
  <2>6. \E image \in Images : disk[m_file][pos].value = Len(image)
    <3>1. CASE Complete(m_file, data.at + 1)
      BY <2>2, <3>1 DEF Complete
    <3>2. CASE Unfinished(m_file, data.at + 1)
      <4>1. rec = m_file /\ pos = Len(disk[rec]) /\ rec # "idle"
        BY <2>2, <2>3, <3>2, NameFacts DEF Unfinished
      <4>2. recImage \in Images /\ disk[rec][Len(disk[rec])].value = Len(recImage)
        BY <2>1, <4>1 DEF FilesInv
      <4>. QED
        BY <4>1, <4>2
    <3>3. pos \in DOMAIN disk[m_file] /\ pos - 1 \notin cuts[m_file]
      <4>1. pos \in 1 .. Len(disk[m_file]) /\ pos - 1 <= data.at
        BY <2>2, <2>3, <2>4
      <4>. QED
        BY <2>1, <2>3, <4>1, DiskFacts DEF Broken
    <3>. QED
      BY <2>1, <2>2, <2>3, <2>5, <3>1, <3>2, <3>3 DEF FilesInv
  <2>. QED
    BY <2>2, <2>6, ImageFacts, BoundFacts
<1>. QED
  BY <1>1, SenderInvariant, PTL

(* onTimeout closes the file only where it ends, behind a record that is not complete, or in a *)
(* tick that began before the playback was started.                                             *)
THEOREM FilesCloseAtEnd == Spec => ClosesAtEnd
<1>. DEFINE Step ==
        m_file # NoName /\ m_file' = NoName /\ UNCHANGED <<gui, kills>> =>
            \/ pos + (IF timer = "read" THEN data.size ELSE 0) >= Len(Content)
            \/ Broken(m_file, pos - 1)
            \/ tick # plays
<1>1. SenderInv /\ [Next]_vars => [Step]_vars
  <2>. SUFFICES ASSUME SenderInv, Next, m_file # NoName, m_file' = NoName, UNCHANGED <<gui, kills>>
                PROVE  \/ pos + (IF timer = "read" THEN data.size ELSE 0) >= Len(Content)
                       \/ Broken(m_file, pos - 1)
                       \/ tick # plays
    OBVIOUS
  <2>1. SenderTypes /\ PlaceInv
    BY DEF SenderInv
  <2>2. CASE Record
    BY <2>2 DEF Record, fileVars
  <2>3. CASE Gui(User)
    BY <2>3 DEF Gui, User, SetFilename, SetRecord, CallStartPlay, CallStopPlay, Close, fileVars
  <2>4. CASE Gui(GuiWaits)
    BY <2>4 DEF Gui, GuiWaits, StartPlay, StopPlay, Closed, fileVars
  <2>5. CASE onTimeout
    <3>1. CASE TimerFires \/ ReadSize \/ Post
      BY <3>1 DEF TimerFires, ReadSize, Post, fileVars
    <3>2. CASE ReadData
      <4>1. Left <= data.size /\ timer = "read"
        BY <2>1, <3>2, ReadDataFacts DEF ReadData
      <4>2. Len(Content) - pos <= data.size /\ pos \in Nat /\ data.size \in Nat /\ Len(Content) \in Nat
        BY <2>1, <4>1, ContentFacts, DataFacts
      <4>. QED
        BY <4>1, <4>2
    <3>3. CASE CloseEmpty
      BY <2>1, <3>3 DEF CloseEmpty, PlaceInv, PostInv
    <3>. QED
      BY <2>5, <3>1, <3>2, <3>3 DEF onTimeout
  <2>6. CASE LeaveLoop
    BY <2>6 DEF LeaveLoop, fileVars
  <2>7. CASE Kill
    <3>1. kills' = kills + 1 /\ kills \in Nat
      BY <2>1, <2>7, BoundFacts DEF Kill, SenderTypes, TypeOK
    <3>. QED
      BY <3>1
  <2>. QED
    BY <2>2, <2>3, <2>4, <2>5, <2>6, <2>7 DEF Next
<1>2. Spec => [][Next]_vars
  BY DEF Spec
<1>. QED
  BY <1>1, <1>2, SenderInvariant, PTL DEF ClosesAtEnd

=============================================================================
