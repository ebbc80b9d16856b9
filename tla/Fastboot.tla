------------------------------ MODULE Fastboot ------------------------------
(***************************************************************************)
(* The fastboot protocol over USB as boot/usb/jz4780_poll.c serves it: one    *)
(* endless loop, jz4780_usb_poll, that takes a snapshot of the interrupt      *)
(* status, pops one entry of the receive FIFO, sends what is pending on the   *)
(* IN endpoints, answers a control request and executes a command, in this    *)
(* order.  Endpoint 0 (control) and endpoint 1 (commands, data, replies)      *)
(* share one USB_STATUS.                                                     *)
(*                                                                         *)
(* The host is external: a fastboot client that follows                      *)
(* boot/usb/fastboot_protocol.txt, and other programs that may send control   *)
(* requests at any time.  Enumeration has been done.  Sizes are in units of   *)
(* which MaxPkt fill a bulk packet.                                          *)
(***************************************************************************)
EXTENDS Integers, Sequences, SequencesExt

CONSTANTS
    Commands,      \* what the client sends, see AllCommands
    Sizes,         \* sizes it downloads (bounds the input)
    MaxPkt,        \* DEP_EP_MAXPKT(1)
    FifoMax,       \* bulk packets the receive FIFO holds
    Requests,      \* control requests: "desc" with a data stage, "nodata" without
    MaxBroken      \* clients that give up in the middle (bounds them)

\* Commands whose handler sends an answer and returns to the loop, commands that
\* leave x-boot, and the erase of an entry that is neither raw nor converted: misc, or
\* the nameless one that every unknown name selects.
Answering == {"getvar", "download", "flash", "erase"}
Leaving   == {"reboot-bootloader", "reboot", "continue", "boot"}
Hanging   == {"erase-other"}

AllCommands == Answering \cup Leaving \cup Hanging \cup {"unknown"}

ASSUME FastbootAssumption ==
    /\ Commands \subseteq AllCommands
    /\ Sizes \subseteq Nat
    /\ MaxPkt \in Nat \ {0, 1} /\ FifoMax \in Nat \ {0}
    /\ Requests \subseteq {"desc", "nodata"} /\ MaxBroken \in Nat

VARIABLES
    host,        \* the client: st, the command it waits for, its size, data left to send
    ctl,         \* the control request the host waits for
    rxfifo,      \* the receive FIFO of the controller
    pc,          \* where jz4780_usb_poll is; "gone": x-boot has been left; "hung"
    ints,        \* its snapshot intsts of GINT_STS
    status,      \* USB_STATUS: what addr and length give, and flag
    setup,       \* USB_STATUS.setup_packet
    setupdone,   \* DEP_SETUP_PHASE_DONE of endpoint 0
    empmsk,      \* DIEP_EMPMSK: IN endpoints with something to send
    cmd_downloadding, rx_length, Bulk_Data_Size,
    Bulk_Out,    \* the command in Bulk_Out_Buf
    \* history
    mixed,       \* commands stored as data, and data taken as commands
    broken,      \* clients that gave up in the middle
    crossed      \* a control request was answered while a reply was waiting to be sent

hostvars == <<host, ctl, broken>>
usbvars  == <<rxfifo, setup, setupdone>>
data     == <<cmd_downloadding, rx_length, Bulk_Data_Size>>
vars     == <<host, ctl, rxfifo, pc, ints, status, setup, setupdone, empmsk,
              cmd_downloadding, rx_length, Bulk_Data_Size, Bulk_Out, mixed, broken, crossed>>

\* What the device sends: kind, and the command it is about ("data": the data phase).
Reply(kind, cmd) == [kind |-> kind, cmd |-> cmd]
Nothing          == Reply("none", "none")
Descriptor       == Reply("desc", "none")

None  == [cmd |-> "none", n |-> 0]
Quiet == [st |-> "idle", cmd |-> "none", n |-> 0, left |-> 0]

Init ==
    /\ host = Quiet /\ ctl = "none"
    /\ rxfifo = <<>> /\ pc = "poll" /\ ints = {}
    /\ status = [says |-> Nothing, flag |-> FALSE]
    /\ setup = "none" /\ setupdone = FALSE /\ empmsk = {}
    /\ cmd_downloadding = FALSE /\ rx_length = 0 /\ Bulk_Data_Size = 0
    /\ Bulk_Out = None /\ mixed = 0 /\ broken = 0 /\ crossed = FALSE

-----------------------------------------------------------------------------
(* The host *)

Out(kind, cmd, n) == [kind |-> kind, cmd |-> cmd, n |-> n]

FifoHasRoom == Len(SelectSeq(rxfifo, LAMBDA e : e.kind \in {"cmd", "data"})) < FifoMax

\* "Host sends a command": one short packet.  n is the size of a download.
SendCommand(cmd, n) ==
    /\ host.st = "idle" /\ pc # "gone" /\ FifoHasRoom
    /\ rxfifo' = Append(rxfifo, Out("cmd", cmd, n))
    /\ host' = [st |-> "wait", cmd |-> cmd, n |-> n, left |-> 0]
    /\ UNCHANGED <<ctl, pc, ints, status, setup, setupdone, empmsk, Bulk_Out, mixed, broken, crossed>>
    /\ UNCHANGED data

\* The data phase: full packets and a last one with the rest.  A packet that does not fit into the FIFO is not acknowledged.
SendData ==
    /\ host.st = "data" /\ FifoHasRoom
    /\ \E size \in 1 .. MaxPkt :
          /\ size <= host.left
          /\ size = MaxPkt \/ size = host.left
          /\ rxfifo' = Append(rxfifo, Out("data", host.cmd, size))
          /\ host' = [host EXCEPT !.left = @ - size,
                                  !.st = IF size = host.left THEN "datawait" ELSE "data"]
    /\ UNCHANGED <<ctl, pc, ints, status, setup, setupdone, empmsk, Bulk_Out, mixed, broken, crossed>>
    /\ UNCHANGED data

\* A control request: the packet, then the core's entry for its completion.
SendRequest(req) ==
    /\ ctl = "none" /\ pc # "gone"
    /\ ctl' = req
    /\ rxfifo' = rxfifo \o <<Out("setup", req, 0), Out("setupcomp", req, 0)>>
    /\ UNCHANGED <<host, pc, ints, status, setup, setupdone, empmsk, Bulk_Out, mixed, broken, crossed>>
    /\ UNCHANGED data

\* The host times out a control request that the device has lost.
GiveUpRequest ==
    /\ ctl # "none" /\ pc = "poll" /\ ~setupdone
    /\ \A k \in 1 .. Len(rxfifo) : rxfifo[k].kind \notin {"setup", "setupcomp"}
    /\ status.says # Descriptor \/ status.flag
    /\ ctl' = "none"
    /\ UNCHANGED <<host, pc, ints, status, empmsk, Bulk_Out, mixed, broken, crossed>>
    /\ UNCHANGED data /\ UNCHANGED usbvars

\* What the client makes of a packet from endpoint 1.  "lost": it is not an answer
\* to what it sent.
Understood(r) ==
    CASE host.st = "wait" /\ r = Reply("DATA", host.cmd) ->
            [host EXCEPT !.st = IF host.n = 0 THEN "datawait" ELSE "data", !.left = host.n]
      [] \/ host.st = "wait" /\ r \in {Reply("OKAY", host.cmd), Reply("FAIL", host.cmd)}
         \/ host.st = "datawait" /\ r = Reply("OKAY", "data") ->
            [host EXCEPT !.st = "idle"]
      [] OTHER -> [host EXCEPT !.st = "lost"]

-----------------------------------------------------------------------------
(* The poll loop *)

\* The order of the handlers in jz4780_usb_poll; handle_inep_intr goes through the
\* endpoints from the highest down.
After(step) ==
    CASE step = "rx" -> "iep1" [] step \in {"iep1", "spin1"} -> "iep0"
      [] step \in {"iep0", "spin0"} -> "oep" [] step = "oep" -> "cmd"
      [] step = "cmd" -> "poll"

Poll ==
    /\ pc = "poll"
    /\ ints' = (IF rxfifo # <<>> THEN {"RXFIFO_NEMPTY"} ELSE {})
               \cup (IF empmsk # {} THEN {"IEP"} ELSE {})
               \cup (IF setupdone THEN {"OEP"} ELSE {})
    /\ pc' = "rx"
    /\ UNCHANGED <<status, empmsk, Bulk_Out, mixed, crossed>>
    /\ UNCHANGED hostvars /\ UNCHANGED usbvars /\ UNCHANGED data

\* HW_SendPKT on endpoint 1: the status is set and the endpoint armed; nothing is
\* sent here.
TxStatus(kind, cmd) ==
    /\ status' = [says |-> Reply(kind, cmd), flag |-> FALSE]
    /\ empmsk' = empmsk \cup {1}

\* Mutant of LastPacket: only a short packet ends the phase.
LastPacketShort(size, total) == size < MaxPkt

\* A short packet ends the data phase, and so does the last byte.
LastPacket(size, total) == size < MaxPkt \/ total = rx_length

\* Mutant of StillDownloading: cmd_downloadding is left set.
NeverOver(size, total) == TRUE

StillDownloading(size, total) == ~LastPacket(size, total)

\* dwc_read_out_packet while cmd_downloadding.
StoreData(e) ==
    LET size  == IF e.kind = "cmd" THEN 1 ELSE e.n
        total == IF Bulk_Data_Size <= rx_length THEN Bulk_Data_Size + size
                 ELSE Bulk_Data_Size
    IN  /\ Bulk_Data_Size' = total
        /\ cmd_downloadding' = StillDownloading(size, total)
        /\ IF LastPacket(size, total) THEN TxStatus("OKAY", "data")
           ELSE UNCHANGED <<status, empmsk>>
        /\ mixed' = IF e.kind = "cmd" THEN mixed + 1 ELSE mixed
        /\ UNCHANGED <<rx_length, Bulk_Out, setup, setupdone>>

\* dwc_read_out_packet otherwise.
StoreCommand(e) ==
    /\ Bulk_Out' = [cmd |-> IF e.kind = "cmd" THEN e.cmd ELSE "unknown", n |-> e.n]
    /\ mixed' = IF e.kind = "data" THEN mixed + 1 ELSE mixed
    /\ UNCHANGED <<status, empmsk, setup, setupdone>> /\ UNCHANGED data

\* handle_rxfifo_nempty pops one entry.
Rx ==
    /\ pc = "rx" /\ pc' = After(pc)
    /\ IF "RXFIFO_NEMPTY" \notin ints
       THEN UNCHANGED <<rxfifo, setup, setupdone, status, empmsk, Bulk_Out, mixed, data>>
       ELSE LET e == Head(rxfifo)
            IN  /\ rxfifo' = Tail(rxfifo)
                /\ \/ e.kind \in {"cmd", "data"} /\ cmd_downloadding /\ StoreData(e)
                   \/ e.kind \in {"cmd", "data"} /\ ~cmd_downloadding /\ StoreCommand(e)
                   \/ /\ e.kind = "setup" /\ setup' = e.cmd
                      /\ UNCHANGED <<setupdone, status, empmsk, Bulk_Out, mixed, data>>
                   \/ /\ e.kind = "setupcomp" /\ setupdone' = TRUE
                      /\ UNCHANGED <<setup, status, empmsk, Bulk_Out, mixed, data>>
    /\ UNCHANGED <<ints, crossed>> /\ UNCHANGED hostvars

IepStep(ep)  == IF ep = 1 THEN "iep1" ELSE "iep0"
SpinStep(ep) == IF ep = 1 THEN "spin1" ELSE "spin0"

\* handle_inep_intr: an armed endpoint gets what USB_STATUS holds, whoever put it
\* there, and the loop waits for the end of the transfer.
Iep(ep) ==
    /\ pc = IepStep(ep)
    /\ pc' = IF "IEP" \in ints /\ ep \in empmsk /\ ~status.flag /\ status.says # Nothing
             THEN SpinStep(ep) ELSE After(pc)
    /\ UNCHANGED <<ints, status, empmsk, Bulk_Out, mixed, crossed>>
    /\ UNCHANGED hostvars /\ UNCHANGED usbvars /\ UNCHANGED data

\* The host reads the packet: XFER_COMP.
XferComp(ep) ==
    /\ pc = SpinStep(ep) /\ pc' = After(pc)
    /\ IF ep = 1
       THEN host.st \in {"wait", "datawait"} /\ host' = Understood(status.says) /\ ctl' = ctl
       ELSE ctl = "desc" /\ ctl' = "none" /\ host' = host
    /\ status' = [status EXCEPT !.flag = TRUE] /\ empmsk' = empmsk \ {ep}
    /\ UNCHANGED <<ints, Bulk_Out, mixed, broken, crossed>> /\ UNCHANGED usbvars /\ UNCHANGED data

\* handle_inep_intr has no timeout: without a client that reads, it spins.
Spin == pc \in {SpinStep(0), SpinStep(1)} /\ host.st \in {"idle", "lost"} /\ UNCHANGED vars

\* handle_setup_packet sets the status and arms endpoint 0 (also when there is no
\* data: data_tran_flag is set for every standard request).
Oep ==
    /\ pc = "oep" /\ pc' = After(pc)
    /\ IF "OEP" \in ints
       THEN /\ status' = [says |-> IF setup = "desc" THEN Descriptor ELSE Nothing,
                          flag |-> FALSE]
            /\ empmsk' = empmsk \cup {0} /\ setupdone' = FALSE
            /\ ctl' = IF setup = "nodata" THEN "none" ELSE ctl
            /\ crossed' = (crossed \/ 1 \in empmsk)
       ELSE UNCHANGED <<status, empmsk, setupdone, ctl, crossed>>
    /\ UNCHANGED <<host, rxfifo, ints, setup, Bulk_Out, mixed, broken>> /\ UNCHANGED data

-----------------------------------------------------------------------------
(* jz4780_handle_fastboot: the commands *)

\* cmd_finish: Bulk_Out_Buf is cleared.
Finish ==
    /\ pc' = After(pc) /\ Bulk_Out' = None
    /\ UNCHANGED <<ints, mixed, crossed>> /\ UNCHANGED hostvars /\ UNCHANGED usbvars

NoCommand ==
    /\ pc = "cmd" /\ Bulk_Out.cmd \in {"none", "unknown"}
    /\ Finish
    /\ UNCHANGED <<status, empmsk>> /\ UNCHANGED data

\* do_cmd_getvar
GetvarCommand ==
    /\ pc = "cmd" /\ Bulk_Out.cmd = "getvar"
    /\ TxStatus("OKAY", "getvar")
    /\ Finish /\ UNCHANGED data

\* do_cmd_flash: what it writes is in FlashSession.
FlashCommand ==
    /\ pc = "cmd" /\ Bulk_Out.cmd = "flash"
    /\ cmd_downloadding' = FALSE
    /\ \E kind \in {"OKAY", "FAIL"} : TxStatus(kind, "flash")
    /\ Finish /\ UNCHANGED <<rx_length, Bulk_Data_Size>>

\* do_cmd_erase of a raw or a converted partition, or of storage, which this table
\* does not have.
EraseCommand ==
    /\ pc = "cmd" /\ Bulk_Out.cmd = "erase"
    /\ \E kind \in {"OKAY", "FAIL"} : TxStatus(kind, "erase")
    /\ Finish /\ UNCHANGED data

\* do_cmd_erase of another one: the OKAY is set, then ND_probe does not know the name
\* and loops for ever, so nothing sends it.
EraseHangs ==
    /\ pc = "cmd" /\ Bulk_Out.cmd \in Hanging /\ pc' = "hung"
    /\ TxStatus("OKAY", Bulk_Out.cmd)
    /\ UNCHANGED <<ints, Bulk_Out, mixed, crossed>>
    /\ UNCHANGED hostvars /\ UNCHANGED usbvars /\ UNCHANGED data

\* Mutant of DownloadCommand: Bulk_Data_Size keeps the last download.
DownloadOnTop ==
    /\ pc = "cmd" /\ Bulk_Out.cmd = "download"
    /\ rx_length' = Bulk_Out.n /\ cmd_downloadding' = TRUE
    /\ Bulk_Data_Size' = Bulk_Data_Size
    /\ TxStatus("DATA", "download")
    /\ Finish

\* do_cmd_download
DownloadCommand ==
    /\ pc = "cmd" /\ Bulk_Out.cmd = "download"
    /\ rx_length' = Bulk_Out.n /\ cmd_downloadding' = TRUE /\ Bulk_Data_Size' = 0
    /\ TxStatus("DATA", "download")
    /\ Finish

\* What is left of the session in USB terms: the device disconnects.
Disconnected ==
    /\ rxfifo' = <<>> /\ setup' = "none" /\ setupdone' = FALSE /\ empmsk' = {}
    /\ status' = [says |-> Nothing, flag |-> FALSE] /\ ints' = {} /\ Bulk_Out' = None
    /\ ctl' = "none"
    /\ host' = IF host.st = "idle" THEN host ELSE [host EXCEPT !.st = "cut"]

\* do_cmd_reboot_bootloader: OKAY is set, the loop is not entered again, and the
\* nested usb_boot has a USB_STATUS of its own and resets the controller.
RebootBootloader ==
    /\ pc = "cmd" /\ Bulk_Out.cmd = "reboot-bootloader"
    /\ Disconnected /\ pc' = "poll"
    /\ UNCHANGED <<mixed, broken, crossed>> /\ UNCHANGED data

\* do_cmd_reboot; continue and boot when the kernel starts.
Leave ==
    /\ pc = "cmd" /\ Bulk_Out.cmd \in {"reboot", "continue", "boot"}
    /\ Disconnected /\ pc' = "gone"
    /\ UNCHANGED <<mixed, broken, crossed>> /\ UNCHANGED data

\* nand_boot or ram_boot returns: no kernel was started.
BootFails ==
    /\ pc = "cmd" /\ Bulk_Out.cmd \in {"continue", "boot"}
    /\ TxStatus("OKAY", Bulk_Out.cmd)
    /\ Finish /\ UNCHANGED data

\* The user's way out of the endless loop.
PowerOff ==
    /\ pc = "hung" /\ Disconnected /\ pc' = "gone"
    /\ UNCHANGED <<mixed, broken, crossed>> /\ UNCHANGED data

\* The user starts x-boot in fastboot mode again.
PowerOn ==
    /\ pc = "gone" /\ pc' = "poll"
    /\ cmd_downloadding' = FALSE /\ rx_length' = 0 /\ Bulk_Data_Size' = 0
    /\ UNCHANGED <<ints, status, empmsk, Bulk_Out, mixed, crossed>>
    /\ UNCHANGED hostvars /\ UNCHANGED usbvars

\* The user starts the client again, after x-boot was left or a reply that was none.
NewClient ==
    /\ host.st \in {"cut", "lost"} /\ host' = Quiet
    /\ broken' = IF host.st = "lost" THEN broken + 1 ELSE broken
    /\ broken' <= MaxBroken
    /\ UNCHANGED <<ctl, pc, ints, status, empmsk, Bulk_Out, mixed, crossed>>
    /\ UNCHANGED usbvars /\ UNCHANGED data

\* Or stops it in the middle of its data, or when it waits for the answer to none, and
\* starts it again: neither the end of a client nor the USB reset of the next one,
\* handle_reset_intr, touches cmd_downloadding.
StopClient ==
    /\ host.st = "data" \/ (host.st = "datawait" /\ host.n = 0)
    /\ broken < MaxBroken
    /\ host' = Quiet /\ broken' = broken + 1
    /\ UNCHANGED <<ctl, pc, ints, status, empmsk, Bulk_Out, mixed, crossed>>
    /\ UNCHANGED usbvars /\ UNCHANGED data

-----------------------------------------------------------------------------
Handler ==
    \/ Poll \/ Rx \/ (\E ep \in {0, 1} : Iep(ep)) \/ Oep
    \/ NoCommand \/ GetvarCommand \/ FlashCommand \/ EraseCommand \/ EraseHangs
    \/ DownloadCommand \/ RebootBootloader \/ Leave \/ BootFails

Client ==
    \/ \E cmd \in Commands, n \in Sizes :
          (cmd # "download" => n = Min(Sizes)) /\ SendCommand(cmd, n)
    \/ SendData
    \/ NewClient \/ StopClient

Next ==
    \/ Handler \/ (\E ep \in {0, 1} : XferComp(ep))
    \/ Client \/ (\E req \in Requests : SendRequest(req)) \/ GiveUpRequest
    \/ PowerOff \/ PowerOn \/ Spin

Spec == Init /\ [][Next]_vars

\* The loop runs for ever; the client goes on with a command it has begun: it sends
\* its data and reads the reply.  Nothing makes it begin a command.
FairSpec ==
    Spec /\ WF_vars(Handler) /\ WF_vars(\E ep \in {0, 1} : XferComp(ep)) /\ WF_vars(SendData)

-----------------------------------------------------------------------------
(* Properties *)

Replies ==
    [kind : {"OKAY", "FAIL", "DATA", "desc", "none"}, cmd : AllCommands \cup {"data", "none"}]

TypeOK ==
    /\ host \in [st : {"idle", "wait", "data", "datawait", "lost", "cut"},
                 cmd : AllCommands \cup {"none"}, n : Nat, left : Nat]
    /\ ctl \in Requests \cup {"none"}
    /\ pc \in {"poll", "rx", "iep1", "spin1", "iep0", "spin0", "oep", "cmd", "gone", "hung"}
    /\ ints \subseteq {"RXFIFO_NEMPTY", "IEP", "OEP"}
    /\ status \in [says : Replies, flag : BOOLEAN]
    /\ setup \in Requests \cup {"none"} /\ setupdone \in BOOLEAN
    /\ empmsk \subseteq {0, 1}
    /\ cmd_downloadding \in BOOLEAN /\ rx_length \in Nat
    \* a data phase never runs more than one packet past what was announced
    /\ Bulk_Data_Size \in 0 .. rx_length + MaxPkt
    /\ Bulk_Out \in [cmd : AllCommands \cup {"none"}, n : Nat] /\ mixed \in Nat
    /\ broken \in 0 .. MaxBroken /\ crossed \in BOOLEAN

\* The session so far: no client gave up, and no control request was answered in the
\* turn in which a reply was put into the USB_STATUS they share.
Orderly == broken = 0 /\ ~crossed

\* Every packet the client reads on endpoint 1 answers the command or the data phase
\* it waits for, although the replies go through a status that the control requests
\* write as well.
RepliesMatch == Orderly => host.st # "lost"

\* The two ways a packet can be taken, by cmd_downloadding, do not get out of step with
\* the client: no command ends in the download buffer and no data in the command buffer.
\* A client that gave up costs one command of the next one, which ends the data phase.
PacketsSorted == mixed <= broken

\* When the client reads the OKAY of a data phase, all of the image is in the buffer
\* and its length is the rx_length that flash will use.
OkayMeansStored ==
    [][(Orderly' /\ host.st = "datawait" /\ host'.st = "idle") =>
           Bulk_Data_Size = host.n /\ rx_length = host.n]_vars

Pending ==
    /\ host.st \in {"wait", "data", "datawait"} /\ host.cmd \in Answering
    /\ host.cmd = "download" => host.n > 0

\* getvar, flash, download with a data phase, and the erase of an entry that is raw or
\* converted or not there are answered in the end, also when the receive FIFO is full.
\* fastboot_protocol.txt promises a response to every command; the code leaves without
\* one: a command it does not know, the erase that hangs, the data phase of a download of
\* no bytes, which no packet ends, and reboot, reboot-bootloader, continue and boot.
EveryCommandAnswered == Pending ~> (host.st = "idle" \/ ~Orderly)

=============================================================================
