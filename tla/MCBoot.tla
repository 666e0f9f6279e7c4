------------------------------- MODULE MCBoot -------------------------------
\* Machines of 12 to 14 frames: low memory with the copy at frame 2, the bridge
\* at 3, the kernel at 4 and 5, RAM, and a screen inside or above the RAM.
\* kernel.bin holds both frames of the kernel, or the first: in the first and
\* second machine RAM goes on behind it, in the third the firmware keeps frame 5.
EXTENDS Boot

D(base, pages, type) == [base |-> base, pages |-> pages, type |-> type]
Gop(base, pages, format, pitch) ==
    <<[base |-> base, pages |-> pages, format |-> format, pitch |-> pitch]>>

MCMaps == {
    <<D(0, 3, "Conventional"), D(3, 1, "LoaderData"), D(4, 8, "Conventional")>>,
    <<D(0, 3, "Reserved"), D(3, 1, "LoaderData"), D(4, 2, "Conventional"),
      D(6, 4, "Conventional"), D(10, 2, "RuntimeServicesData")>>,
    <<D(1, 2, "Conventional"), D(3, 0, "Reserved"), D(3, 1, "LoaderData"),
      D(4, 1, "Conventional"), D(5, 1, "LoaderData"),
      D(6, 1, "BootServicesData"), D(7, 5, "Conventional")>>}

MCGops == {<<>>, Gop(7, 1, "RGBX", TRUE), Gop(12, 2, "BGRX", TRUE),
           Gop(12, 2, "BGRX", FALSE), Gop(12, 2, "BltOnly", TRUE)}

MCFirmwares == [map : MCMaps, gop : MCGops, loads : BOOLEAN, file : {1, 2}]
=============================================================================
