# smplrepo: a TLA+ model of the video receiver

smplrepo receives a video stream over UDP (from the webcam application on a phone) and
over TCP (from another computer), decodes its images and shows them; it can also encode
the pictures of a local camera and send them.  The program's own code is `websock/`,
a Qt 5 application; everything else in the repository is vendored, or is not built.
These modules model that program: the way of an image from a socket to the screen, the
way of the camera's pictures to the screen and the encoder, and the threads, files and
connections that are involved.

## The system

| part | source (under `src/websock/`) | state | operations | here |
| --- | --- | --- | --- | --- |
| sender half of VideoData | videodata.cpp:316-371, videodata.h:9-60 | `m_frame_number` | `get_udp_packets` | Fragmentation, UdpSender |
| receiver half of VideoData | videodata.cpp:66-302 | `m_packet`, `m_currentID`, `m_FrameSize`, `m_currentFrameSize`, `m_frames`, `m_lost_packet` | `addData`, `getFrame`, `removeFrame`, `frameCount`, `lost_packets` | VideoData, FrameChannel |
| WebSock | websock.cpp, websock.h | `m_frames`, `m_framesH264`, `m_avframes`, `m_done`, the decoder | `tryParseData`, `event`, `onTimeout`, `doSendPktToCodec`, `doGetDecodedFrame`, `Frame::encode`, `~WebSock` | WebSock |
| tcpsocket, the parser | tcpsocket.cpp:159-164, 248-336; common.h:80-112 | `m_buffer`, `m_indexPos`, `m_state`, `m_dataSize`, `m_dataBegin` | `onReadyRead`, `parsePacket`, `sendPacketToOwner` | TcpParser |
| tcpsocket, connection and send queue | tcpsocket.cpp:89-132, 166-246, 338-368 | `m_isConnected`, `m_tryReconnect`, `m_packets`, the QTcpSocket | `connectToHost`, `newHost`, `onTimeout`, `onError`, `sendPacket`, `writeNextPacket` | TcpSocket |
| tcpserver, with the tcpsockets it owns | tcpserver.cpp, tcpsocket.cpp:44-87 | `m_bindPort`, `m_tcpserver`, `m_sockets` | `setBindPort`, `run`, `onNewConnection`, `onDisconnect`, `sendPacket`, `~tcpserver` | TcpServer |
| TestSender and the recording | testsender.cpp, websock.cpp:297-304, 461-508 | the file, its offset, `m_mutex`, the interval | `startPlay`, `stopPlay`, `onTimeout`, `setFilename`, `setRecord` | TestSender |
| CameraStream, VideoSurface | camerastream.cpp, videosurface.cpp | `m_frames`, `m_isPlay`, `m_imageSize`, the camera, the encoder and its thread | `startPlay`, `stopPlay`, `present`, `onStartCamera`, `onSendImage`, `initContext`, `doEncode`, `~CameraStream` | CameraStream |
| VideoFrame | videoframe.cpp | the two images, the textures, `m_prev_width` and `m_prev_height`, three update flags | `onReceiveImage`, `onTimeout`, `generateTexture`, `paintEvent` | VideoFrame |
| pixel arithmetic | common.cpp, common.h | none | `cnvrgb2yuv`, `createFromQImage` | YUVImage |
| MainWindow and the dialogs | mainwindow.cpp, dialog*.cpp | the wiring of the parts, settings | construction, destruction, slots | Viewer (the camera and the widget), TestSender and TcpSocket (its calls) |
| DataStream | datastream.cpp | read and write position | typed reads | not modelled: nothing uses it |
| GPU colour conversion | cl_main_object.cpp, convertimage.cpp, cuda/ | | | not modelled: off in the build |
| jpegenc | ../jpeg/jpegenc.cpp | | | not modelled: not built |
| libjpeg, FFmpeg, OpenCL headers | ../jpeg, ffmpeg/, 3rdparty/, include/ | | | vendored; what WebSock and CameraStream see of the H.264 decoder and encoder is modelled as external |

How they interact.  The WebSock is a QThread whose event loop owns a UDP socket, a 10 ms
timer and a VideoData.  A datagram goes to `VideoData::addData`; complete images are taken
by `WebSock::tryParseData`.  A JPEG gets a `Frame` with a thread of its own, anything else
goes to `m_framesH264`, where the thread *snd* takes it to the decoder; *snd* puts decoded
pictures into `m_avframes`, the thread *dec* turns them into frames of `m_frames`, and the
timer takes finished frames off the front of `m_frames` and emits `sendImage`, which
VideoFrame draws.  A tcpsocket (a thread too) parses its stream and posts each packet to the
WebSock as an `EventTest`, as TestSender does with the records of a file; `WebSock::event`
puts them into `m_framesH264`.  CameraStream (a thread with an event loop) drives a QCamera,
posts each picture to the VideoFrame and, when it is told to encode, queues it for an
encoder thread of its own.  MainWindow builds all of this and takes it down.

### What is hard in it

* UDP loses, repeats and reorders datagrams; the image a datagram belongs to is known only
  by a number that starts again when the peer does.  The receiver keeps five pieces of
  state that must agree, and its first ids are never initialised.
* The number of datagrams of an image and the bytes in each come from two different
  divisors.
* `m_frames` has two producers with different limits, both of which compare the size
  before they lock; the timer tests the front outside the lock, and `back()` is read after
  the unlock.  `pop()` runs `~Frame`, which joins a thread while the lock is held.
* The threads stop by a flag; whether they get to see it depends on what a library answers.
* TCP delivers the stream in pieces of any size; the parser's state survives calls, and a
  reconnection.
* Reconnection is a flag that one slot sets and a timer reads, against slots that connect
  by themselves.  The send queue is trimmed by one thread and popped by another.
* A camera is started by a posted slot and stops itself by a flag it reads with an image in
  hand.  The encoder's thread is started by a timer that the destructor has not stopped
  yet when it looks whether there is a thread to join.
* The widget's textures have one remembered size for two kinds of images.
* A server's port can be changed from another thread between two lines of its `run`.

### What makes each part correct

* Sender: the datagrams of a frame tile it; what is in no datagram is bounded.
* Receiver: every image handed out is one that was sent, whole; on a network that keeps the
  order, in that order; without copies, at most once; with no loss, all of them and
  nothing rejected.
* WebSock: the queue's limits hold although they are compared outside the lock; a thread is
  started on a frame that has none, a frame popped is finished; images of a kind stay in
  order along the pipeline and no image is in it twice; what is queued is shown; the
  destructor returns.
* Parser: what the owner gets is what the peer sent, once, in order; a packet is passed
  over only in the cases that the parser's restart explains; every call that finds whole
  packets delivers one of them (and no more: the others wait for later reads).
* Connection: a connection that can be made is made in the end, to the host named last; the
  flag says what the socket is; packets go out once and in order, and none is removed
  unwritten but those over the limit.
* TestSender: a playback posts the images of its file, whole and in order, whatever is
  recorded or clicked meanwhile; the GUI thread gets its mutex back.
* CameraStream: the camera runs exactly while it is asked to; the encoder gets every
  image queued, once and in order, while it is open; the destructor ends.
* VideoFrame: the screen ends up with the last image, all of its planes.
* tcpserver: its entries are the open connections, each is given every packet since it
  came; it listens on the port bound last.
* Pixels: a colour fits its byte, and no plane is overrun.

## The modules

**Fragmentation** has the constants of `get_udp_packets` and the datagrams of a frame in
closed form.  **UdpSender** is the function itself: a call, one iteration of its loop a
step, the throw, the return.  `HEADERS` is 12 bytes of `ASFDataHeader` on the wire plus
`sizeof(ASFPayloadHeader)`, 28.

**VideoData** is the receiver, with `Fragmentation` as its peer and a network that is
chosen in `Init` from `Networks`: lossy, duplicating and reordering independently.  A byte
of an image is the image and the position it came from, so a mixed image can be told from
a whole one.  `addData`'s early returns are the actions `RejectForeign`, `RejectStray`,
`RejectSize` and `RejectGap`; `AppendFragment` and `CompleteFrame` are its normal ends.
`m_currentID` and `m_currentFrameSize` start with any value, because the constructor leaves
them so; -1 is `UIntMod - 1`, as the comparison with the unsigned number sees it.  The
number of a restarted peer starts from 0 (`SenderRestart`).  The members that nothing
reads are left out.

**FrameChannel** is what the protocol promises: the application gets images that were sent.
VideoData refines it, mapping the images taken to the images sent.

**WebSock** has one program counter for each thread of the class: `ws` (the event loop),
`snd`, `dec`, `main` (the destroying thread), and a state of its own for the thread of each
JPEG frame.  A step is what happens between two accesses to shared state: the comparison of
a size and the push that follows it are two actions, as are the push and `back().start()`,
the test of the front and its pop.  `m_mutex` is held between `LockToPop` and `PopFront`,
while `~Frame` may wait; the critical sections that only push are one action each.  The
decoder is external: `inside` are the images given to it, `avail` how many of them it will
return before it answers EAGAIN; it holds back up to `Delay` and may refuse a packet.
`overreadMatches` stands for the byte behind the array `JPEG_STRING`, which `check_string`
reads; it is one value for a build.  `std::queue` operations are atomic in the model: the
code's data races inside them (the locks of `m_framesH264` and `m_avframes` are commented
out) have no outcomes that a model could enumerate.

**TcpParser** has one action per case of `parsePacket`'s switch and per outcome of it, a peer that
writes packets as `writeNextPacket` does (or, with `Documented`, as the comment in common.h says), a
connection that cuts the stream anywhere and may break.  A payload byte is at most 127 and a packet
shorter than 128, so that the sums that would wrap in 32 bits stay small.  `owed` remembers, from
each read, how many packets the owner must have when the call returns.  `MarkerAssumption` says of
the two markers what the proofs need and TLC evaluates for those of the program: what `M_BEGIN`
looks for, the first three bytes of the begin marker, is nowhere in an end marker with a begin
marker behind it but where that begins.

**TcpSocket** is a tcpsocket that connects (those of a server are in TcpServer).  The
tcpsocket's thread runs one slot at a time: the posted calls in their order, and the timer
or a signal of the socket between any two of them.  `TimerFires` (the tests of
`writeNextPacket`), `Front`, `Write`, `PopFront` and `Retry` are the parts of `onTimeout` between which
sendPacket (`LetIn`, `Push`, `TrimTest`, `Trim`, on another thread) can step, because both look at
`m_packets`, and sendPacket at `m_isConnected`, outside the lock.
QTcpSocket is external, with what Qt documents: an attempt fails with `error`; a peer that
closes gives `error` and `disconnected`; `abort` gives `disconnected`; `connectToHost` on a
socket that is not unconnected gives `error` (OperationError) and does nothing; the socket
also works inside `waitForBytesWritten`.  `front` and `pop_front` of an empty list are undefined and end
the program here (`Crash`).  What is counted in `written`, `trimmed` and `skipped` is history.
No code of the program calls sendPacket of a connecting tcpsocket yet; it is the class's public call.

**TestSender** joins the recording branch of `tryParseData`, the playback thread and the GUI's
calls over one disk.  A file is a sequence of cells of four bytes; a record is a cell with
the size and the cells of the image.  A cell also says which record it belongs to, so that
reading at the wrong place can be told; the images of the run have cells that read as a size
over the limit, as an empty image and as an image that is there.  A write may be cut short and the program
killed between the two writes of a record; the files are what the next start finds.  `relock` is
the state in which the thread locks the mutex that it holds (testsender.cpp:92): with the
mutex of this platform it waits there for ever.

**Images** is what the camera and the widget share: the kinds and sizes of images and the
queue `toGui` of those posted to the widget.

**CameraStream** has three program counters, `gui` (the caller of `startPlay`, `stopPlay`
and the destructor), `loop` (the event loop) and `enc` (the encoder's thread).  The slots
posted to the loop are served in order; the timer that opens the encoder may come between
any two.  `TestPlay` and `StopCamera`, `EncLook` and `EncodeFrame`, and the four steps of
`~CameraStream` are apart because another thread can step between them.  `InitContext` and
`StoreThread` are apart because the thread runs before `m_encoderThread` holds it.  The
QCamera and the encoder are external.  `late` remembers that the destructor had looked at
`m_encoderThread` before it was set.

**VideoFrame** is the widget: `onReceiveImage` stores an image, `onTimeout` uploads the
textures (`generateTexture`, `generateTextureQ`), `paintEvent` draws.  `gl` is what the
textures hold: which image, and for which kind and size they were laid out.  OpenGL is
external.  Paint events that no `update()` asked for are left out, since they draw what is
drawn before or after them.

**Viewer** composes the two as mainwindow.cpp does.  Both of them post to one GUI thread,
which serves an event of the widget only when it is in none of the calls.  MainWindow sets
`m_InitAV` to FALSE, so the widget and the stream take part only then; with TRUE, the
default of the class, the encoder does.  The two halves share one run because the camera's
loop does not depend on the flag.

**TcpServer** has the thread of the server (`Make`, `ReadPort` and `Listen` of `run`, then
the slots), a caller of `setBindPort` whose three steps may fall between them, and
connections that come and end; one that ends with an error posts `onDisconnect` twice.

**YUVImage** is arithmetic without state: what `cnvrgb2yuv` makes of a pixel and the
indices that `createFromQImage` writes.  It has no run; everything said of it is proved, in ViewerProofs.

The `MC` modules hold the definitions that the configurations give the constants.  The modules whose
names end in `Proofs` hold lemmas, theorems and proofs.  Definitions whose names extend another's
(`Fits_AnyOffset`) are variants with a plausible bug, kept to show that the property named in
PROJECT.json notices it.

## The runs

| run | module, cfg | what it shows | bounds, and why they are enough |
| --- | --- | --- | --- |
| sender | MCUdpSender, UdpSender.cfg | with the program's numbers, a call never reaches its throw, tiles a prefix of the frame, returns Fragmentation's closed form, and leaves out a tail no longer than the headers | the sizes around 0..4 multiples of 59960 and 60000 and around 2^16; two calls, with the number's width 2, so that it wraps; 418 states |
| sender_every_byte (violated) | UdpSenderEveryByte.cfg | that the input is split into packets (videodata.h:102) fails: a frame of 59961 bytes is sent without its last byte | the same |
| video | MCVideoData, VideoData.cfg | on all eight networks: whole images, none twice without copies, nothing rejected on a clean network and every whole image taken, and the refinement of FrameChannel | 3 images of 1, 2 and 3 fragments' worth (5 bytes is a truncated one), 1 copy or foreign datagram; the ids start as garbage that can equal a peer's; 239,836 states |
| video_restart | VideoDataRestart.cfg | with restarts and a wrapping number, every byte is still at its place in an image of its size, and the order is kept when the network keeps it | 3 images of 2 or 3 fragments, numbers modulo 2: numbers repeat by both wrap and restart, and the image numbered -1 goes on with what a gap left in `m_packet`; 615,813 states |
| websock | WebSock.cfg | the limits, the unlocked reads, the order of the pipeline and what can block the queue; frames are shown and the destructor returns | limits 1, 2 and 1 instead of 8, 3000 and 15, so that each is reached, exceeded by the race and drained; 4 images, of which 2 may overtake 2; the decoder holds back 1; 268,294 states |
| websock_pictures (violated) | WebSockPictures.cfg | an AVFrame is left unfreed by each turn of the decoding thread | 2 images |
| tcp_parser | MCTcpParser, TcpParser.cfg | exactness, order, what may be passed over, and a packet for each call that finds one, with the 8-byte markers a 64-bit build compares | 3 packets; a payload is empty, or an end marker and a header whose announced data reaches into the next packet, so that a parser that looks into it delivers what was never sent and swallows a packet that no read and no break has cut; reads of every length; 1 broken connection; 4,704,220 states |
| tcp_documented (violated) | TcpParserDocumented.cfg | a peer that follows common.h:83 is never understood | 2 packets, no break |
| test_sender | MCTestSender, TestSender.cfg | recording and playing one file, or two, at once: what is played is what was recorded, in order; only behind an incomplete record is an image read as a size and the mutex locked twice; a file is closed at its end; the GUI's calls return | 2 records of 1 and 2 cells, 2 playbacks, 1 kill, 2 names: a file can be renamed, stopped, restarted and recorded into during each of the thread's four steps; 504,976 states |
| tcp_socket | TcpSocket, TcpSocket.cfg | the flag and the socket agree, the socket ends up connected to the host named last, packets are written once and in order, and what both threads remove is what was too much | a limit of 2 packets instead of 30 and 4 packets, so that the list is trimmed, and drained, while the front is written; 1 failure, 1 newHost, 2 hosts: each may come in every state of the other; 442,810 states |
| viewer | Viewer, Viewer.cfg | the camera follows the calls, the encoder is served, the screen ends up with the last image, `~CameraStream` ends | 2 sizes of images, a queue of 1 instead of 5, 2 camera pictures (one may overtake a stop and a start), 2 calls of startPlay and stopPlay after the first, 1 image of the stream, 1 setting; 1,420,902 states |
| tcp_server | TcpServer, TcpServer.cfg | the entries, what each is given, and the port | 3 ports, one of them taken by another program; 2 calls of setBindPort; 3 connections, so that one can be taken out for another; 2 packets |

Deadlock is not checked: the bounds on images, packets and calls let every behaviour end.

Fairness.  `VideoData!LiveSpec`: the event loop reads a datagram that the socket holds and
`tryParseData` takes a complete image, so both are weakly fair; nothing is assumed of the
peer, and the network only in the states of `Clean`.  `WebSock!LiveSpec`: every thread is
scheduled (weak fairness for each thread's steps, for the frame threads and for the
timer); `LeaveLoop` is strongly fair, because Qt's `exec` looks at the quit flag between any two
events, while the action is disabled inside each handler.  Nothing is assumed of arrivals.
`TestSender!LiveSpec`: the timer thread runs, and so does the GUI thread once it has called
something; nobody has to record or to click.  `TcpSocket!LiveSpec`: `onTimeout` goes on once
begun (weak), and the event loop serves the posted calls, the timer and the socket in turn
(strong: a handler of one disables the others for a moment); an attempt that does not fail
succeeds, and failures are finite by `MaxFailures`.  `CameraStream!Fairness`: the destructor goes
on, the loop serves what is posted to it and the encoder's thread runs (weak), and `exec`
looks at the quit flag between two events (strong); nobody has to call anything, the camera
need not present a picture and the timer need not open the encoder.

What the properties leave out by a guard, and why: `Intact` and the refinement hold while the image
numbers differ (`~Restarting` and fewer images than `UIntMod`); with equal numbers, or an image
numbered -1 behind a gap, bytes of two images of one size do mix, and only `Placed` is left.
`QueuedShown` lets a queue stop at a frame that `StartBack` missed: the thread was started on a
frame that *dec* pushed between the unlock and `back()`, and the JPEG frame in front never
finishes.  That this is the only way to stop is `StuckOnlyWhenOvertaken`.  What the parser delivers
and passes over depends on what payloads look like as soon as it is in one.  It gets there in the
ways of `OutOfStep`: M_BEGIN wants three bytes and does not wait for them, so that after a read that
ends behind the first or second byte of a packet the parser looks for a beginning in the payload; a
broken connection cuts a packet, or a header that the next connection then completes; and a packet
that was never sent, found in one of these ways, swallows the beginning of a sent one. `Exact` and
`PassesOnlySplit` except what these explain; elsewhere the payload never matters. `EachCallTakesOne`
is for one connection, and for reads that split at most packets whose payload shows nothing like a
beginning (`Steady`).  It promises one packet for each call: parsePacket returns after the first
(tcpsocket.cpp:321) and M_ERROR returns too (332), so when a read brings several, the others stay in
the buffer until the next reads, and the last one until a byte follows it.  `FlagAgrees` and
`Reconnected` leave out a newHost that came while a connection was being made again (`crossed`): the
timer's `connectToHost` then finds the socket connecting or connected, OperationError clears
`m_isConnected` and asks for another attempt, and this goes on every 10 ms over a connection that
works; no document says what the code should do. `LossAccounted` does not exclude a lost packet: it
bounds the losses by what sendPacket removed. Its last line says what it takes to read or pop an
empty list: the other thread must remove as many packets as the list may hold, 30 in the program,
between a test and its pop. `PlaysRecords` and `HangsOnlyOnBroken` except what lies behind an
incomplete record (`Broken`), where sizes are read from the middle of an image.  `ClosesAtEnd`
excepts a tick that began before the playback did: the mutex is free between finding nothing to read
and closing the file (testsender.cpp:106-111), and a playback started there is over before its first
image. `EncoderServed` excepts a thread that was stored after the destructor looked (`late`): it may
then use an encoder that has been freed, and the program ends because a std::thread is destroyed
unjoined; and a test.jpg whose size is not the camera's, for which the encoder was opened.
`DrawsLast` excepts null images (every JPEG of the stream arrives as one), a texture laid out for
the other kind of image, whose format a second upload of the same size does not change, and an RGB
image uploaded in one tick with a later YUV one (`overwritten`). `ListensOnLast` excepts a `run`
that had read the old port before setBindPort looked for a server to close (`missed`).  In all of
these the code does something odd that no document rules out; the guard names exactly when. With a
decoder that did not open (`CodecOpen` FALSE), parseH264 never leaves its loop and the destructor
does not return; the run is with an open decoder.

## The proofs

tlapm checks all of them.  They hold for every value of the constants under the named
assumptions: `SizesAssumption` (the headers are smaller than a datagram, whose data fits 16
bits), `SenderAssumption`, `VideoAssumption`, `WebSockAssumption`, `TcpSocketAssumption` and
`TcpServerAssumption` (types of the constants; MAX_FRAMES is not larger than MAX_BUFFERS),
`TestSenderAssumption` (types; an image is not empty and not larger than MAX_SIZE, the largest size that
`onTimeout` reads, 99,999,999 bytes in the program; the two names that mean no file are none of the user's),
`CameraAssumption`, `FrameAssumption` and `ViewerAssumption` (types; in Images, that no size is the null one's),
`ParserAssumption` (types, lengths and the range of the bytes) and `MarkerAssumption`.

*FragmentationProofs*: an iteration before the last always has data left (`SomethingLeft`), and each
fragment is nonempty, in range and not larger than a datagram (`FragmentFacts`); one fragment only
reaches the end of its frame (`OneLastFragment`); two fragments of an image do not overlap
(`FragmentsApart`), and one that does not begin its image follows another of it (`FragmentBefore`).
The argument is that `j * Capacity < n` for every `j < max_pkt(n)`, although `max_pkt` divides by
more than `Capacity`.

*SendersProofs* holds the theorems of the library's two senders.  Of get_udp_packets:
`SenderTypeOK`, `SenderTiles` (which includes that the throw is dead code),
`SenderReturnsFragments`, `SenderLossBounded`.  The inductive invariant says that in the loop
`current` is `Offset(n, i)` and that the datagrams built are `Fragment(n, 0..i-1)`; everything else
follows from it and the lemmas. Of tcpserver: `EntriesFollow` and `ListensOnLastPort`, for any
connections, ports and packets, by two inductive invariants: an entry of a connection that has ended
has a call of `onDisconnect` coming, and the server's port is related to where `run` and
`setBindPort` are.

*VideoDataProofs*.  `Inv` is `TypeOK /\ IInv /\ Placed`.  Neither `TypeOK` nor `Placed` is
inductive: that the size left is not negative, and that the bytes in `m_packet` are in place, needs
`Collecting` (what is collected is shorter than the size announced, as long as `m_currentFrameSize`
says, and each byte in its place in an image of that size) and `NetGenuine` (the network holds
fragments of images that were sent).  This gives `VideoDataTypeOK`, `VideoDataIInv`,
`VideoDataPlaced` for every network, number of images, restart and width of the number.  `WholeInv`
adds, while the numbers differ, that `m_packet` is the beginning of the image `m_currentID` names:
`RejectGap`, which stores -1 and keeps the bytes, is the step for which `OfCurrent` has to speak of
-1, and no image has that number yet.  It gives `VideoDataNumberInv` and `VideoDataIntact`, and
these the refinement `VideoDataImplementsChannel` (without restarts, fewer images than numbers).
`OnceInv` adds to `AtMostOnce` and `InOrder` what an image that was collected means for the network:
the datagram with its end, of which there is one, is gone (`EndGone`), and on a network that keeps
the order every datagram left is of that image or a newer one (`NoneOlder`).  It holds through
restarts, for no header enters it, and gives `VideoDataAtMostOnce` and `VideoDataInOrder`.
`CleanInv` is for a network that loses, repeats and reorders nothing.  Every datagram on its way
begins an image, or follows another one that is on its way, or is the one `addData` awaits
(`InTurn`); so the oldest always fits, and none of the four early returns is taken.
`VideoDataRejectsNothing` holds for every size, truncated images included, through restarts and
wraps.

*WebSockProofs*.  `ReadInv` is `TypeOK`, `UnlockedReadsHold` and that an image in a thread's hands
is one; each thread's steps keep it, dec's because an append leaves the front alone and its frame
has no thread either, the frame threads' because the frame that `StartBack` is about to take is not
running.  This gives `WebSockTypes` and `UnlockedReadsAlwaysHold`.  `FramesBounded` needs `Room`,
the room that each producer still has between its comparison and its push (one frame less when both
are there), and `Decoded`: what comes out of the decoder is never a JPEG, so only the event loop can
add one. For `ImagesStayInOrder`, `LineInv` puts the nine places where an image can be, from the
widget to the socket, in a line: images of one kind rise along it.  Each action passes the first
image of a place to the end of an earlier one, or takes it out, or a new image joins.  A place may
be skipped only while no image of the kind is between, which is why it must be known that JPEG
frames go past the decoder (`Sorted`). `OnlyOvertakenFramesAreStuck` needs `Fresh`: until
`StartBack`, what is behind the frame that the event loop pushed are frames of *dec*, so a frame
that is left without a thread has been overtaken; and that m_frames holds an image once, which is
part of the order.

*TcpSocketProofs*.  `LossIsAccounted` rests on `QueueInv`.  The list is within its limit but for the
packet being appended (`Limits`); packets leave it at the front (`InLine`); and each one that left
unwritten is paid for by a packet that `sendPacket` removed, where the packet the socket thread has
read and the other thread has removed since is owed one in advance (`Owed`), since the thread's pop
then removes a second one.  To find the list empty at that pop, the other thread must have removed
as many packets as the limit since the test.  `FlagAlwaysAgrees` rests on `Uncrossed`: the last slot
posted that sets `m_isConnected` sets it to what the socket is, and without one it is so already
(`Leads`); at most one attempt to connect is due, and only while the socket is unconnected.  A
newHost during an attempt breaks that last part, which is what `crossed` excepts.

*TestSenderProofs*.  `SenderInv` has five parts.  The types (`TestSenderTypes`).  `FilesInv`: a file
is a sequence of records, and a size in it is followed by its whole image and then by another size,
unless the record is being written or is one of `cuts`; a write adds to the end of that sequence, so
nothing that was complete changes. `PlaceInv`: outside the critical section an open file is at a
size or behind a cut, and never at its end, for `onTimeout` closes it there under the mutex; inside
it `data` is what was read at the place before. A record that is still being written is therefore
read as its size alone, which ends the file, and never in part. `PostedInv` and `FollowInv`: until
setSender(nullptr) drops an image, the place is behind the image posted last in this playback, or at
0; startPlay may come between reading an image and posting it, so the place is then that of the new
playback and the image that of the old.  They give `RecordsArePlayed`; `PlaceInv` gives
`OnlyBrokenFilesHang`, since the size of a record not cut is that of an image, and
`FilesCloseAtEnd`, since a tick that reads nothing began before the playback or was behind a cut.

*ViewerProofs*.  The invariant of the camera, `CameraInv`, has these parts beside the types.
`FollowInv`: the call posted last is the one that `m_isPlay` is from, or no call is posted and the
device is what the flag says; a picture that finds the flag clear can stop the camera only before a
start that is still posted.  `Opened` and `Ending` say when there is an encoder and a thread and
what the destructor has done about them, and `InSequence` that the images encoded, in the encoder's
hands, queued and posted follow each other; together they give `EncoderIsServed`.  `ScreenDrawsLast`
rests on `Drawn`: every upload due is waited for by a tick, and the image received last is in the
texture or will be at that tick.  The proof found two guards of `onStartCamera` in the model that
overlapped; they are written as the nested tests of the code since. The same module has the pixels:
`ConvertsInRange` (each colour fits its byte), `LumaInBounds`, and `ChromaInBounds` for even widths
with `OddWidthOverruns` as its limit (7 by 6 writes past the plane).

*TcpParserProofs*.  `ParserTypeOK` needs what each case knows of the earlier ones (behind `M_SIZE`
the type is a legal one and `m_indexPos` lies behind the header).  `ParserInOrder` rests on one
fact, that what was delivered is no longer in the buffer; it holds for any bytes and through broken
connections. `ParserKeepsStep` states, with `Exact`, `PassesOnlySplit` and `EachCallTakesOne`, the
stronger facts behind them: every packet delivered was sent (`AsSent`), and every packet that the
parser has left behind was delivered or split.  Its invariant has two parts. `StreamInv`: the
packets tile the stream, and what is left of them in the buffer and on the wire are their bytes.
`StepInv`: the parser is in a packet, at the place its state names, with every packet before it
delivered or split (`Within`), or it is looking for a beginning behind one, where it finds none
before the next packet's (`Behind`): in an end marker by `MarkerAssumption`, and in a split packet
because its payload shows none (`Steady`).  What an unsplit payload contains never matters.  The
theorem is for one connection: with the bytes of a broken one in front, and after a split packet
whose payload looks like a packet, what the parser finds depends on the payload.  Those cases are
model-checked.  `Roomy` (the buffer is not over `MAX_SIZE`) is a hypothesis, because `M_SIZE` starts
over when the buffer is.

Model-checked only: of TcpParser, `Exact` and `PassesOnlySplit` after a break, or a split of a packet whose
payload looks like one; and liveness (`EveryWholeFrameTaken`, `QueuedShown`, `DestructorReturns`,
`Reconnected`, `GuiReturns`), which the proof system does not reach.

## What the runs found

1. get_udp_packets divides by 60000 and puts 59960 bytes into a datagram: a frame of 59961..59999
   bytes (and later ranges) is never sent whole, so never received (videodata.cpp:325).
2. parseH264 leaks one AVFrame per turn (websock.cpp:421).
3. The markers of the TCP format are 8 bytes in the code because of `sizeof` of a pointer
   (common.h:85); a peer of the documented format is not understood.

## Not modelled

* Nine tenths of the lines of the repository are vendored: libjpeg and the headers of FFmpeg
  and OpenCL.  They are libraries that the program calls; only their contracts matter here.
* DataStream (no user), the GPU conversions (off in the build: `USE_OPENCL` and `USE_CUDA`),
  jpegenc and the webcam's sources that the build leaves out.
* Of the modelled classes: what an image shows (the decoder's output, the bytes that
  `YUVImage::set` copies, the shaders), the frames per second, `setRotateBy90`, the helpers
  that save or load an image, getters, logging, and the widgets and dialogs of MainWindow,
  which are wiring and settings without state of their own.
* Steps that the models join or leave out, none of which a property depends on: the early return of
  `encodeFrame` when `av_frame_get_buffer` fails (camerastream.cpp:227); the playback of an empty file
  that exists (testsender.cpp:58 asks only whether it exists); `done = true` at the end of a frame's thread
  and the end of the thread, since `encode` takes no lock.  TestSender's `ReadData` joins the read of an
  image and the `atEnd` behind it (testsender.cpp:97-104), and a write is seen at once and whole: this
  takes it that a write(2) of a record's part is atomic for a reader of the same file.
* Hazards that the code does not avoid and a property excepts are listed in PROJECT.json
  without a property, with what is excepted and what is shown in its place.
* Data races as such: a field or a queue operation is read and written whole.

What would come next: VideoData composed with WebSock in one run, in place of `ReceiveH264` and
`ReceiveJpeg`, and the streams of broken connections in the proof of TcpParser.
