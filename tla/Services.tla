------------------------------- MODULE Services -------------------------------
(***************************************************************************)
(* The init and exit routines of the services, one row each: the steps of  *)
(* the init in their order, what each acquires, what happens when it fails *)
(* (see ServiceSession), and what the last exit gives back.  Handles given *)
(* by the caller or the environment count like those asked for.            *)
(***************************************************************************)
EXTENDS Naturals, Sequences

(* a step that acquires `gets`; when it fails, `undo` is given back         *)
Step(gets, fails, undo) ==
  [gets |-> gets, fails |-> fails, undo |-> undo, needs |-> {}, optional |-> FALSE]

Optional(s) == [s EXCEPT !.optional = TRUE]
Request(s) == [s EXCEPT !.needs = {"session"}]

Service(name, steps, closes) == [name |-> name, steps |-> steps, closes |-> closes]

GetSession == Step({"session"}, "drop", {})

(* the session is all that the service has *)
Simple(name) == Service(name, <<GetSession>>, {"session"})

(* mutant: the session stays open when the driver cannot be registered *)
DrivenForgetsSession(name) ==
  Service(name, <<GetSession, Step({"driver"}, "drop", {})>>, {"driver", "session"})

(* a driver or a process is registered once the session is there, and taken *)
(* off again by the exit routine                                            *)
Driven(name) ==
  Service(name, <<GetSession, Step({"driver"}, "drop", {"session"})>>, {"driver", "session"})

Ac == Simple("ac")
Am == Simple("am")
Ampxi == Simple("ampxi")
Cdcchk == Simple("cdcchk")
Cfgu == Simple("cfgu")
Frd == Simple("frd")
Frdn == Simple("frdn")
Fsreg == Simple("fsreg")
Gsplcd == Simple("gsplcd")
Loader == Simple("loader")
Mcuhwc == Simple("mcuhwc")
Ndmu == Simple("ndmu")
News == Simple("news")
Ns == Simple("ns")
NwmExt == Simple("nwmext")
Pmapp == Simple("pmapp")
Pmdbg == Simple("pmdbg")
Ps == Simple("ps")
PtmGets == Simple("ptmgets")
PtmSets == Simple("ptmsets")
PtmSysm == Simple("ptmsysm")
Ptmu == Simple("ptmu")
PxiDev == Simple("pxidev")
PxiPm == Simple("pxipm")
Qtm == Simple("qtm")
Qtmc == Simple("qtmc")

Cam == Driven("cam")
Y2r == Driven("y2r")
Nfc == Driven("nfc")

(* DSP_UnloadComponent: its result is not looked at *)
Dsp == Service("dsp", <<GetSession, Step({}, "ignore", {})>>, {"session"})

Errf == Service("errf", <<Step({"session"}, "exit", {})>>, {"session"})

Srv == Service("srv", <<Step({"session"}, "exit", {}), Step({}, "exit", {})>>, {"session"})

(* the count decremented is not actRefCount: it is actHandle *)
Act == Service("act", <<Step({"session"}, "keep", {})>>, {"session"})

Boss == Service("boss", <<GetSession, Optional(Step({}, "exit", {}))>>, {"session"})

Fs == Service("fs", <<GetSession, Optional(Step({}, "drop", {"session"}))>>, {"session"})

(* the session is left open when sslcipc_Initialize fails *)
Sslc == Service("sslc", <<GetSession, Optional(Step({}, "drop", {}))>>, {"session"})

(* no return between the decrement and the requests, whose failure then     *)
(* decrements again                                                         *)
Nims ==
  LET NextRequest == Request(Step({}, "exit", {}))
  IN Service("nims",
             <<Step({"session"}, "drop_on", {}), NextRequest, NextRequest, NextRequest, NextRequest>>,
             {"session"})

Ir == Service("ir",
              <<GetSession, Step({"iru"}, "drop", {"session"}),
                Step({"block"}, "drop", {"iru", "session"})>>,
              {"iru", "session", "block"})

Mic == Service("mic",
               <<Step({"session"}, "exit", {}), Step({"block"}, "exit", {}),
                 Step({"mapped"}, "exit", {}), Step({}, "exit", {})>>,
               {"mapped", "block", "session"})

(* the events of GetHandles are closed by the exit routine only *)
SharedMemory(name, registers, rest, closes) ==
  Service(name,
          <<GetSession, Step({"sharedmem", "events"}, "drop", {"session"})>> \o registers
          \o <<Step({"address"}, "drop", {"session"}),
               Step({"mapped"}, "drop", {"sharedmem", "address", "session"})>> \o rest,
          {"session", "sharedmem", "events", "address", "mapped"} \cup closes)

Irrst == SharedMemory("irrst", <<Optional(Step({"rst"}, "ignore", {}))>>, <<>>, {"rst"})

(* irrstInit comes last: hidInit returns its failure and keeps everything *)
Hid == SharedMemory("hid", <<>>, <<Optional(Step({"irrst"}, "keep", {}))>>, {"irrst"})

(* the mutex is closed nowhere, and the exit routine releases the rest *)
Csnd == Service("csnd",
                <<GetSession, Step({"mutex", "block"}, "drop", {"session"}),
                  Step({"address"}, "drop", {"session"}),
                  Step({"mapped"}, "drop", {"block", "address", "session"}),
                  Step({"channels"}, "drop", {"block", "address", "session"})>>,
                {"channels", "mapped", "block", "session", "address"})

(* the event is closed nowhere; four results are not looked at *)
Gsp == Service("gsp",
               <<GetSession, Step({"right"}, "drop", {"session"}), Step({"event"}, "ignore", {}),
                 Step({"relay", "sharedmem"}, "drop", {"right", "session"}),
                 Step({"address"}, "ignore", {}), Step({"mapped"}, "ignore", {}),
                 Step({"thread"}, "ignore", {})>>,
               {"thread", "mapped", "sharedmem", "address", "relay", "right", "session"})

(* with shared memory; what was allocated is freed only if the block exists *)
Httpc == Service("httpc",
                 <<GetSession, Step({"memory"}, "drop", {"session"}),
                   Step({"block"}, "drop", {"session"}),
                   Step({"http"}, "drop", {"session", "block", "memory"})>>,
                 {"http", "session", "block", "memory"})

(* a command that answers with a status other than OK is a failure here and *)
(* a success for the caller, to whom the status is returned                 *)
Mvd == LET All == {"mvd", "workbuf", "session"}
       IN Service("mvd",
                  <<GetSession, Step({"workbuf"}, "drop", {"session"}),
                    Step({"mvd"}, "drop", {"workbuf", "session"}),
                    Step({}, "drop", All), Step({}, "lie", All)>>,
                  All)

Uds == Service("uds",
               <<Step({"ndmu"}, "drop", {}), Step({"exclusive"}, "drop", {"ndmu"}),
                 Step({"session"}, "drop", {"exclusive", "ndmu"}),
                 Step({"memory", "block", "event"}, "drop", {"session", "exclusive", "ndmu"})>>,
               {"session", "block", "memory", "event", "exclusive", "ndmu"})

(* threadCreate fails with ret still 0; APT_Enable with the thread running. *)
(* Homebrew modes that stop after the lock, or keep it at exit, are left out *)
Apt == Service("apt",
               <<Step({"lock"}, "drop", {}), Step({"events"}, "drop", {"lock"}),
                 Step({"thread"}, "lie", {"events", "lock"}),
                 Step({"enabled"}, "drop", {"events", "lock"})>>,
               {"enabled", "thread", "events", "lock"})

(* threadCreate fails with rc still 0 *)
Ndsp == LET Loaded == {"component", "dsp"}
        IN Service("ndsp",
                   <<Step({"component"}, "drop", {}), Step({"dsp"}, "drop", {"component"}),
                     Step({}, "drop", Loaded), Step({"pipe"}, "drop", Loaded),
                     Step({"thread"}, "lie", Loaded \cup {"pipe"})>>,
                   Loaded \cup {"pipe", "thread"})

AllServices ==
  {Ac, Am, Ampxi, Cdcchk, Cfgu, Frd, Frdn, Fsreg, Gsplcd, Loader, Mcuhwc,
   Ndmu, News, Ns, NwmExt, Pmapp, Pmdbg, Ps, PtmGets, PtmSets, PtmSysm,
   Ptmu, PxiDev, PxiPm, Qtm, Qtmc, Cam, Y2r, Nfc, Dsp, Errf, Srv, Act, Boss,
   Fs, Sslc, Nims, Ir, Mic, Irrst, Hid, Csnd, Gsp, Httpc, Mvd, Uds, Apt,
   Ndsp}
===============================================================================
