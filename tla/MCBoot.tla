------------------------------ MODULE MCBoot ------------------------------
(* A flash of two pages of two packets each, an EEPROM of two bytes, and    *)
(* the transfers of a programming session.                                  *)
EXTENDS BootHost

Vendor(r, a, n, l) ==
  [std |-> FALSE, req |-> r, sub |-> "none", addr |-> a, len |-> n, last |-> l,
   in |-> r \notin {"WRITEFLASH", "WRITEEPROM"}, val |-> Image(a)]
Isp(s, a) == [Vendor("TRANSMIT", a, 1, FALSE) EXCEPT !.sub = s]
Standard(r, v, n) ==
  [std |-> TRUE, req |-> r, sub |-> "none", addr |-> 0, len |-> n, last |-> FALSE,
   in |-> n > 0, val |-> Image(0), value |-> v]

MCDescriptor == [d \in {"device"} |-> [k \in 1 .. 3 |-> <<d, k>>]]

ProgramSession ==
  {Vendor("CONNECT", 0, 1, FALSE),
   Vendor("WRITEFLASH", 0, 4, FALSE), Vendor("WRITEFLASH", 4, 2, FALSE),
   Vendor("WRITEFLASH", 6, 1, TRUE), Vendor("WRITEFLASH", 0, 6, TRUE),
   Vendor("WRITEFLASH", 0, 3, FALSE), Vendor("WRITEFLASH", 2, 2, FALSE),
   Vendor("READFLASH", 2, 4, FALSE),
   Vendor("WRITEEPROM", 0, 2, FALSE), Vendor("READEEPROM", 0, 2, FALSE),
   Isp("writeByte", 1), Vendor("DISCONNECT", 0, 1, FALSE)}

EnumerateSession ==
  {Vendor("CONNECT", 0, 1, FALSE), Standard("SET_ADDRESS", 1, 0),
   Standard("GET_DESCRIPTOR", "device", 3),
   Standard("GET_STATUS", 0, 2), Standard("SET_CONFIGURATION", 1, 0),
   Standard("GET_CONFIGURATION", 0, 1),
   Isp("signature", 0), Isp("readByte", 1),
   Vendor("SETLONGADDRESS", 0, 1, FALSE), Vendor("READFLASH", 0, 3, FALSE)}

BothSessions == {ProgramSession, EnumerateSession}
ExitSession == {{Vendor("CONNECT", 0, 1, FALSE), Vendor("DISCONNECT", 0, 1, FALSE)}}
=============================================================================
