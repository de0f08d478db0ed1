\* One writer, one reader, a sample of two words, a counter of two bits.
CONSTANTS
  Writers = {writer}
  Readers = {reader}
  Words = {stamp, rate}
  Samples = {old, new}
  SeqSize = 4
SPECIFICATION BufferFairSpec
PROPERTY ReadsReturn
