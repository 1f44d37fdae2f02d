------------------------------- MODULE IpHelpers -------------------------------
(***************************************************************************)
(* The conversions of include/ip_helpers.h between the driver's words,     *)
(* bytes and texts; u32_to_cidr, which is a loop, is in CameraDiscovery.   *)
(*                                                                         *)
(* A byte has B bits and a word four bytes. A text is the numbers in it:   *)
(* <<a, b, c, d, prefix>> for a.b.c.d/prefix.                              *)
(***************************************************************************)
EXTENDS Naturals, Sequences

CONSTANT B   \* the bits of a byte

ASSUME IpHelpersAssumption == B \in Nat \ {0}

W == 4 * B
Byte == 2 ^ B
Word == 2 ^ W

-------------------------------------------------------------------------------
(* Mutated forms of definitions below. *)

MutLittleEndian(ip) ==  \* the order of ip_u32_to_bytes
  [i \in 1 .. 4 |-> (ip \div 2 ^ (B * (4 - i))) % Byte]

-------------------------------------------------------------------------------

\* u << n: undefined from the width of the word on, where the processor takes the
\* count modulo the width (wraps) or shifts everything out.
Shifted(u, n, wraps) ==
  IF n < W THEN (u * 2 ^ n) % Word
  ELSE IF wraps THEN (u * 2 ^ (n % W)) % Word ELSE 0

cidr_to_u32(cidr) == IF cidr = 0 THEN 0 ELSE Shifted(Word - 1, W - cidr, FALSE)

ip_u32_little_endian_to_bytes(ip) == [i \in 1 .. 4 |-> (ip \div 2 ^ (B * (i - 1))) % Byte]

ip_bytes_to_u32(bytes) ==
  bytes[1] * 2 ^ (3 * B) + bytes[2] * 2 ^ (2 * B) + bytes[3] * 2 ^ B + bytes[4]

ip_bytes_to_u32_little_endian(bytes) ==
  bytes[4] * 2 ^ (3 * B) + bytes[3] * 2 ^ (2 * B) + bytes[2] * 2 ^ B + bytes[1]

\* std::stoi of each number, and the conversion of an int to a byte.
ip_string_to_bytes(address) == [i \in 1 .. 4 |-> address[i] % Byte]

get_address_wo_netmask(address) == SubSeq(address, 1, 4)

get_cidr_netmask(address) == address[5] % Byte

-------------------------------------------------------------------------------
(* What the properties compare with. *)

\* The bits of a mask, in the order they are written: bit 1 is the highest of the
\* first byte, which is the lowest byte of the driver's word.
Bit(dw, k) ==
  LET byte == (k - 1) \div B IN ((dw \div 2 ^ (byte * B)) \div 2 ^ (B - 1 - ((k - 1) % B))) % 2

Contiguous(dw) == \A k \in 1 .. W - 1 : Bit(dw, k) >= Bit(dw, k + 1)
================================================================================
