SPECIFICATION Spec
CONSTANTS
  u1 = u1
  u2 = u2
  u3 = u3
  Uploads <- MCUploads
  FileSize <- MCFileSize
  Handles = {h1, h2}
  NoHandle = NoHandle
  Factory = Factory
  NoUpload = NoUpload
  Garbage = Garbage
  ChunkSize = 2
INVARIANTS
  OneUploadPerImage
