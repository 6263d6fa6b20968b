SPECIFICATION Spec
CONSTANTS
  r = r  f = f  l = l  w = w  g = g  n1 = n1
  x = x  y = y  hr = hr  hw = hw  h1 = h1  d1 = d1  d2 = d2
  Node = {r, f, l, w, g, n1}
  Name = {x, y}
  Handle = {hr, hw, h1}
  Root = {r, w}
  Device = {d1, d2}
  None = None
  Node0 <- MCNode0
  Entries0 <- MCEntries0
  Preopen <- MCPreopenDevices
  ReadOnly = {}
  OpenArgs <- MCOpenArgs
INVARIANTS DevicesMayDiffer
CHECK_DEADLOCK FALSE
