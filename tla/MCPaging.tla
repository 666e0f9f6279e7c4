------------------------------ MODULE MCPaging ------------------------------
(* Two processes with two pages in their own slot, that share all but the  *)
(* last of their tables, and one in the slot of the identity map; one page *)
(* of the kernel's and one inside the identity map, where no page can be   *)
(* put; on too few frames for everything at once.                          *)
EXTENDS Paging

MCUserPages    == {<<1, 0, 0, 0>>, <<1, 0, 1, 0>>, <<0, 1, 0, 0>>}
MCKernelPages  == {<<2, 0, 0, 0>>, <<0, 0, 0, 1>>}
MCIdentityPage == <<0, 0, 0, 0>>

\* Past the end of a space with stray USER marks nothing is claimed.
BeforeLoss == ~lost
============================================================================
