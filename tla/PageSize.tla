------------------------------ MODULE PageSize ------------------------------
(***************************************************************************)
(* From the resolution chosen on the LCD to the limits on the assembled    *)
(* page.  The scan area is always A4 (dimsA4).                             *)
(***************************************************************************)
EXTENDS StripAssembly

CONSTANTS maxCanvasHeight, maxCanvasPixels

VARIABLES
    step,           \* "select", "params", "scan", "assemble", "done"
    selected,       \* Resolution of UserSelect.xml, 0 for an unknown name
    resolution,     \* resolution
    requested,      \* what the printer reads from the PARAMS packet
    images,         \* the page's strips, decoded
    assembled       \* AssembleStrips returned a page

vars == <<step, selected, resolution, requested, images, assembled>>

\* resolutionMap, by what its names say.
Resolutions == {75, 100, 150, 200, 300, 600, 1200}

Init ==
    /\ step = "select" /\ selected \in Resolutions \cup {0}
    /\ resolution = 0 /\ requested = 0 /\ images = <<>> /\ assembled = FALSE

\* A resolution the map does not have is taken for 300.
Select ==
    /\ step = "select" /\ step' = "params"
    /\ resolution' = IF selected \in Resolutions THEN selected ELSE 300
    /\ UNCHANGED <<selected, requested, images, assembled>>

\* buildParams: two bytes, big-endian.
BuildParams ==
    /\ step = "params" /\ step' = "scan"
    /\ requested' = resolution % 2^16
    /\ UNCHANGED <<selected, resolution, images, assembled>>

\* The printer scans A4, given in 1200ths of an inch, in strips of 32 lines.
dimsA4 == [width |-> 9924, height |-> 14028]
Pixels(units) == (units * requested) \div 1200

ScanPage ==
    /\ step = "scan" /\ step' = "assemble"
    /\ LET lines == Pixels(dimsA4.height)
           Height(i) == IF 32 * i <= lines THEN 32 ELSE lines % 32
       IN images' = [i \in 1..((lines + 31) \div 32) |->
                       [width |-> Pixels(dimsA4.width), height |-> Height(i)]]
    /\ UNCHANGED <<selected, resolution, requested, assembled>>

Assemble ==
    /\ step = "assemble" /\ step' = "done"
    /\ assembled' = Accepts(images, maxCanvasHeight, maxCanvasPixels)
    /\ UNCHANGED <<selected, resolution, requested, images>>

Done == step = "done" /\ UNCHANGED vars

Next == Select \/ BuildParams \/ ScanPage \/ Assemble \/ Done

Spec == Init /\ [][Next]_vars

\* "A4 @1200 DPI" (tcp.go and assemble.go, at their limits): a page of every
\* resolution the daemon accepts from the LCD can be assembled.
EveryResolutionFits == step = "done" => assembled
=============================================================================
