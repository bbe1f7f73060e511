------------------------------- MODULE OspfText --------------------------------
(* Addresses as the OSPF commands print them. *)
EXTENDS Integers

(* OSPF_IP_STRING_CONVERT: dotted text cut to 14 characters, read again.  An
   address of four three-digit bytes loses its last digit. *)
OSPF_IP_STRING_CONVERT(ip) ==
    IF \A k \in 1 .. 4 : ip[k] >= 100 THEN [ip EXCEPT ![4] = @ \div 10] ELSE ip
===============================================================================
